---- MODULE Spec2Model ----
(***************************************************************************)
(* Verification model of the Foundry Local adapter of vscode-copilot-chat: *)
(* the SSE stream normalizers (foundryLocalEndpoint.ts, openAIEndpoint.ts),*)
(* the streaming chat loop, the capability resolver with its cache, the    *)
(* catalog lister and the health prober (foundryLocalProvider.ts and its   *)
(* SDK-backed variants).                                                   *)
(*                                                                         *)
(* Text is modelled as a sequence of atoms.  An atom is one of             *)
(*   NL    the newline character                                           *)
(*   SP    the space character                                             *)
(*   CR    any other white space character (carriage return, tab)          *)
(*   D5    the five characters  data:                                      *)
(*   DONE  the six characters   [DONE]                                     *)
(*   X     a run of characters that is neither white space nor JSON        *)
(*   J1 d, J2 d   the first and the second half of the text of the JSON    *)
(*         document d.  A document is a JSON value together with the flag  *)
(*         canon: TRUE when the text is what JSON.stringify prints for the *)
(*         value, FALSE when it is formatted otherwise (inner white space).*)
(***************************************************************************)
EXTENDS Integers, Sequences, FiniteSets, TLC

\* ------------------------------------------------------------------ bounds
\* longest `choices` array of a generated document
MaxChoices == 2
\* most lines of a generated multi-line stream
MaxLines == 2

\* ------------------------------------------------------------- JSON values
NullChoice == [nul |-> TRUE, delta |-> "absent", message |-> "absent", index |-> 0]
Choice(d, m, i) == [nul |-> FALSE, delta |-> d, message |-> m, index |-> i]

\* JS truthiness of a field: an absent key reads undefined, "null" stands for
\* every falsy value (null, "", 0, false); everything else is truthy.
Truthy(x) == x \notin {"absent", "null"}

NoDoc == [kind |-> "none", ch |-> "absent", choices |-> <<>>, canon |-> TRUE]
ObjArr(cs, canon) == [kind |-> "obj", ch |-> "arr", choices |-> cs, canon |-> canon]
ObjNoChoices(canon) == [kind |-> "obj", ch |-> "absent", choices |-> <<>>, canon |-> canon]
ObjScalarChoices(canon) == [kind |-> "obj", ch |-> "scalar", choices |-> <<>>, canon |-> canon]
JsonNull(canon) == [kind |-> "null", ch |-> "absent", choices |-> <<>>, canon |-> canon]
JsonNum(canon) == [kind |-> "num", ch |-> "absent", choices |-> <<>>, canon |-> canon]

\* the JSON value of a document: the document without its formatting
ValueOf(d) == [d EXCEPT !.canon = TRUE]

\* ------------------------------------------------------------------- atoms
Atom(t) == [t |-> t, d |-> NoDoc]
NL == Atom("NL")
SP == Atom("SP")
CR == Atom("CR")
D5 == Atom("D5")
DONE == Atom("DONE")
X == Atom("X")
J1(d) == [t |-> "J1", d |-> d]
J2(d) == [t |-> "J2", d |-> d]

IsWs(a) == a.t \in {"SP", "CR"}

\* --------------------------------------------------- String.prototype.*
RECURSIVE SplitFrom(_, _, _)
SplitFrom(text, i, cur) ==
    IF i > Len(text) THEN <<cur>>
    ELSE IF text[i].t = "NL" THEN <<cur>> \o SplitFrom(text, i + 1, <<>>)
    ELSE SplitFrom(text, i + 1, Append(cur, text[i]))

\* text.split('\n')
Split(text) == SplitFrom(text, 1, <<>>)

RECURSIVE Join(_)
\* lines.join('\n')
Join(lines) ==
    IF Len(lines) = 0 THEN <<>>
    ELSE IF Len(lines) = 1 THEN lines[1]
    ELSE lines[1] \o <<NL>> \o Join(Tail(lines))

RECURSIVE TrimStart(_)
TrimStart(s) == IF Len(s) > 0 /\ IsWs(s[1]) THEN TrimStart(Tail(s)) ELSE s

RECURSIVE TrimEnd(_)
TrimEnd(s) ==
    IF Len(s) > 0 /\ IsWs(s[Len(s)]) THEN TrimEnd(SubSeq(s, 1, Len(s) - 1)) ELSE s

\* s.trim()
Trim(s) == TrimEnd(TrimStart(s))

\* line.startsWith('data: ')
StartsWithData(line) == Len(line) >= 2 /\ line[1] = D5 /\ line[2] = SP

\* line.substring(6), used only where the line starts with 'data: '
Substring6(line) == SubSeq(line, 3, Len(line))

\* the literal 'data: [DONE]'
DoneLine == <<D5, SP, DONE>>

\* the elements of a non-empty array but the last, and the last
AllButLast(lines) == SubSeq(lines, 1, Len(lines) - 1)
Last(lines) == lines[Len(lines)]

\* --------------------------------------------------------------- JSON.*
\* JSON.parse accepts exactly the two halves of one document, with white
\* space around them; anything else throws SyntaxError.
ParseOk(text) ==
    LET t == Trim(text)
    IN  Len(t) = 2 /\ t[1].t = "J1" /\ t[2].t = "J2" /\ t[1].d = t[2].d

\* JSON.parse(text), where ParseOk(text)
Parse(text) == ValueOf(Trim(text)[1].d)

\* JSON.stringify(v): the canonical text of the value
Stringify(v) == <<J1(ValueOf(v)), J2(ValueOf(v))>>

\* chunk.includes('"delta":') / chunk.includes('"message":'): the key of a
\* choice is printed in the first (delta) resp. second (message) half.
IncludesDelta(text) ==
    \E i \in 1..Len(text) :
        /\ text[i].t = "J1"
        /\ \E k \in 1..Len(text[i].d.choices) :
              text[i].d.choices[k].delta # "absent"
IncludesMessage(text) ==
    \E i \in 1..Len(text) :
        /\ text[i].t = "J2"
        /\ \E k \in 1..Len(text[i].d.choices) :
              text[i].d.choices[k].message # "absent"


\* ----------------------------------------------------------- sequences
Map(F(_), s) == [i \in 1..Len(s) |-> F(s[i])]

RECURSIVE Flatten(_)
Flatten(ss) == IF Len(ss) = 0 THEN <<>> ELSE ss[1] \o Flatten(Tail(ss))

\* every line followed by '\n'
WithNewlines(lines) == Flatten([i \in 1..Len(lines) |-> lines[i] \o <<NL>>])

\* ------------------------------------------- the choice transformations
\* `choice.delta` / `{ message, ...rest } = choice` on a null element, and
\* `parsed.choices` on the JSON value null, throw TypeError.
ThrowsTypeError(v) ==
    \/ v.kind = "null"
    \/ v.kind = "obj" /\ v.ch = "arr"
       /\ \E i \in 1..Len(v.choices) : v.choices[i].nul

\* if (choice.delta && choice.message) { const { message, ...rest } = choice; return rest }
RemoveMessageIfDual(choice) ==
    IF Truthy(choice.delta) /\ Truthy(choice.message)
    THEN [choice EXCEPT !.message = "absent"]
    ELSE choice

\* if (parsed.choices && Array.isArray(parsed.choices)) parsed.choices = parsed.choices.map(...)
StripDual(v) ==
    IF v.kind = "obj" /\ v.ch = "arr"
    THEN [v EXCEPT !.choices = Map(RemoveMessageIfDual, v.choices)]
    ELSE v

\* const { message, ...cleanChoice } = choice; return cleanChoice
RemoveMessage(choice) == [choice EXCEPT !.message = "absent"]

StripAlways(v) ==
    IF v.kind = "obj" /\ v.ch = "arr"
    THEN [v EXCEPT !.choices = Map(RemoveMessage, v.choices)]
    ELSE v

DataPrefix == <<D5, SP>>

\* --------------- foundryLocalEndpoint.ts (1): transformedFinishedCb
CbLine(line) ==
    IF StartsWithData(line) /\ line # DoneLine
    THEN IF ParseOk(Substring6(line)) /\ ~ThrowsTypeError(Parse(Substring6(line)))
         THEN DataPrefix \o Stringify(StripDual(Parse(Substring6(line))))
         ELSE line
    ELSE line

TransformedFinishedCb(chunk) ==
    IF IncludesDelta(chunk) /\ IncludesMessage(chunk)
    THEN Join(Map(CbLine, Split(chunk)))
    ELSE chunk

\* --------------- foundryLocalEndpoint.ts (2): _transformSSEData
SSEDataLine(line) ==
    IF StartsWithData(line) /\ line # DoneLine
    THEN IF ParseOk(Substring6(line)) /\ ~ThrowsTypeError(Parse(Substring6(line)))
         THEN DataPrefix \o Stringify(StripDual(Parse(Substring6(line))))
         ELSE line
    ELSE line

TransformSSEData(data) == Join(Map(SSEDataLine, Split(data)))

\* --------------- foundryLocalEndpoint.ts (3): _transformLine
TransformLine(line) ==
    LET trimmedLine == Trim(line)
        jsonPart == Substring6(trimmedLine)
    IN  IF ~StartsWithData(trimmedLine) THEN trimmedLine
        ELSE IF trimmedLine = DoneLine THEN trimmedLine
        ELSE IF jsonPart = <<>> \/ jsonPart = <<DONE>> THEN trimmedLine
        ELSE IF ParseOk(jsonPart) /\ ~ThrowsTypeError(Parse(jsonPart))
             THEN DataPrefix \o Stringify(StripDual(Parse(jsonPart)))
             ELSE trimmedLine

\* --------------- openAIEndpoint.ts: transformFoundryLocalStream, one line
FoundryLocalStreamLine(line) ==
    LET data == Trim(Substring6(line))
    IN  IF ~StartsWithData(line) THEN line
        ELSE IF data = <<DONE>> THEN line
        ELSE IF ParseOk(data) /\ ~ThrowsTypeError(Parse(data))
             THEN DataPrefix \o Stringify(StripAlways(Parse(data)))
             ELSE line


\* =====================================================================
\*  State
\* =====================================================================
VARIABLES
    \* --- one normalized response (the stream normalizers)
    variant,    \* which normalizer is wired in: "cb", "sse", "ts", "oai"
    input,      \* the bytes the service sends, in order
    pos,        \* how many of them have arrived
    buffer,     \* the normalizer's `buffer` / `data`
    out,        \* everything pushed downstream so far, concatenated
    nstate,     \* "streaming", "ended", "errored"
    midSplit,   \* a chunk has ended in the middle of a line
    \* --- one streaming chat request (provideLanguageModelChatResponse)
    cpc,        \* where the request is
    initialized,\* the provider's `_initialized`
    registered, \* the cancellation listener is registered
    cancelled,  \* the caller's cancellation token has fired
    aborted,    \* abortCtrl.abort() has been called
    cLines,     \* the lines of the chunk in hand that are still to be handled
    reports,    \* the text parts given to progress.report, in order
    chatLog,    \* the calls made to the SDK and the HTTP client, in order
    serviceUrl, \* the provider's `_serviceUrl`
    chatUrl,    \* the URL the chat completion request was sent to, "" before
    cvariant,   \* the provider whose chat is called: "part_003", "part_004"
                \* or "part_002"
    \* --- the capability resolver and its cache (getModelInfo, getAllModels)
    prov,       \* the provider: "rest" (foundryLocalProvider.ts) or "sdk" (part_004)
    src,        \* what the metadata source answers for each model
    limitsSet,  \* whether the base class fills capabilities.limits
    pinit,      \* the provider's `_initialized`
    modelCache, \* the provider's `_modelCache`
    ppc,        \* where each call is
    pcall,      \* each call: its kind, its model, whether overrides were given
    ptodo,      \* the catalog entries a listing call has still to resolve
    pcaps,      \* the modelCapabilities a call has built
    presult,    \* what a getModelInfo call returned
    known,      \* the knownModels map a listing call is building
    \* --- the health prober (_checkFoundryService) inside getAllModels
    hbase,      \* the provider's `_foundryBaseUrl`
    hpc,        \* where the call is
    hresp,      \* the answer to GET /health
    mresp,      \* the answer to the fallback GET /v1/models
    hcheck,     \* how _checkFoundryService ended
    hlog,       \* the requests issued, in order
    hresult,    \* how getAllModels ended
    hthrown,    \* the message of the error _checkFoundryService threw, in segments
    herror,     \* the message of the error getAllModels threw, in segments
    hvariant,   \* the provider: "provider" (foundryLocalProvider.ts), "part_001",
                \* "part_004", "part_003"
    hinit,      \* part_004's `_initialized`
    hlist,      \* the answer to the catalog request
    houtcomes,  \* how each catalog entry handled so far ended, in catalog order
    hknown,     \* the keys of `knownModels`
    hwarn,      \* the warnings logged
    \* --- one version comparison (_isVersionSupported)
    currentVersion, \* the version given, as the texts between its dots
    vi,         \* the loop index `i`, counted from 1
    vsupported, \* what the function returned: "pending", "true", "false"
    \* --- several responses normalized at the same time
    qvariant,   \* which normalizer is wired in: "ts" or "oai"
    qin,        \* the bytes the service sends for each request, in order
    qpos,       \* how many of them have arrived, for each request
    qbuf,       \* the `buffer` of each call of the normalizer
    qout,       \* everything pushed downstream so far, for each request
    qstate,     \* "streaming" or "ended", for each request
    qmixed,     \* a chunk arrived while another request held a partial line
    \* --- the replay stream (_createReadableStreamFromText)
    ytext,      \* the transformed text the stream is built from
    yindex,     \* how many chunks the emitting loop has gone through
    ydata,      \* `dataCallback` is set
    yend,       \* `endCallbacks` holds the consumer's listener
    ygot,       \* the chunks the data listener was called with, in order
    yended,     \* the consumer's end listener was called
    ypc         \* "emitting" or "done"

normVars == <<variant, input, pos, buffer, out, nstate, midSplit>>
chatVars == <<cpc, initialized, registered, cancelled, aborted, cLines, reports, chatLog,
              serviceUrl, chatUrl, cvariant>>
capsVars == <<prov, src, limitsSet, pinit, modelCache, ppc, pcall, ptodo, pcaps, presult, known>>
probeVars == <<hbase, hpc, hresp, mresp, hcheck, hlog, hresult, hthrown, herror,
               hvariant, hinit, hlist, houtcomes, hknown, hwarn>>
versionVars == <<currentVersion, vi, vsupported>>
healthVars == <<probeVars, versionVars>>
pairVars == <<qvariant, qin, qpos, qbuf, qout, qstate, qmixed>>
replayVars == <<ytext, yindex, ydata, yend, ygot, yended, ypc>>
streamVars == <<pairVars, replayVars>>

vars == <<normVars, chatVars, capsVars, healthVars, streamVars>>

\* ---------------------------------------------------- capability values
DEFAULT_CONTEXT_WINDOW == 4096
DEFAULT_MAX_OUTPUT_TOKENS == 2048

\* A number of tokens is held in half-tokens, as contextWindow / 2 is not a
\* whole number for an odd contextWindow.
Tok(n) == 2 * n

\* Math.min
Min(a, b) == IF a < b THEN a ELSE b

\* the model identifiers of the catalog, in catalog order
Catalog == <<"phi-4-mini", "qwen-vision">>
Models == {Catalog[i] : i \in 1..Len(Catalog)}

\* modelId.toLowerCase().includes('vision')
IdHasVision(m) == m = "qwen-vision"

\* _isThinkingModel: the identifier matches 'reasoning', 'phi-4' or 'think'
IsThinkingModel(m) == m = "phi-4-mini"

\* What the metadata source answers for a model: the details ("ok"), nothing
\* ("missing": a non-success response, a null info) or an exception ("throws").
\* context_length and max_tokens are 0 where the answer leaves them out.
Answer(a, cl, mt, v, t) ==
    [answer |-> a, context_length |-> cl, max_tokens |-> mt, vision |-> v, tools |-> t]
SrcData ==
    { Answer("missing", 0, 0, FALSE, FALSE),
      Answer("throws", 0, 0, FALSE, FALSE),
      Answer("ok", 0, 0, FALSE, FALSE),
      Answer("ok", 1001, 0, FALSE, FALSE),
      Answer("ok", 8192, 4096, TRUE, TRUE),
      Answer("ok", 1001, 4096, FALSE, TRUE) }

\* BYOKModelCapabilities; contextWindow records the window the limits were cut from
NoCaps ==
    [set |-> FALSE, maxInputTokens |-> 0, maxOutputTokens |-> 0, contextWindow |-> 0,
     vision |-> FALSE, toolCalling |-> FALSE, thinking |-> FALSE]
MkCaps(in, o, cw, v, t, th) ==
    [set |-> TRUE, maxInputTokens |-> in, maxOutputTokens |-> o, contextWindow |-> cw,
     vision |-> v, toolCalling |-> t, thinking |-> th]

\* the modelCapabilities a caller passes in
OverrideCaps == MkCaps(Tok(100), Tok(28), Tok(128), FALSE, FALSE, FALSE)

\* _getFoundryModelDetails as it would be with a fallback of half the size
DetailsHalved(a) ==
    IF a.answer = "ok" THEN a ELSE Answer("ok", 2048, 1024, FALSE, FALSE)

\* foundryLocalProvider.ts: _getFoundryModelDetails
FoundryModelDetails(a) ==
    IF a.answer = "ok" THEN a ELSE Answer("ok", 4096, 2048, FALSE, FALSE)

\* foundryLocalProvider.ts: getModelInfo, the capabilities built from the details
RestCaps(m, a) ==
    LET modelDetails == FoundryModelDetails(a)
        contextWindow ==
            IF modelDetails.context_length # 0
            THEN Tok(modelDetails.context_length) ELSE Tok(4096)
        outputTokens ==
            IF modelDetails.max_tokens # 0
            THEN Tok(modelDetails.max_tokens)
            ELSE Min(contextWindow \div 2, Tok(2048))
    IN  MkCaps(contextWindow - outputTokens, outputTokens, contextWindow,
               modelDetails.vision \/ IdHasVision(m), modelDetails.tools, FALSE)

\* part_004: getModelInfo, the capabilities built from the SDK's model info,
\* and the fallback capabilities where _getFoundryModelInformation throws
SdkCaps(m, a) ==
    IF a.answer = "ok"
    THEN LET contextWindow == Tok(DEFAULT_CONTEXT_WINDOW)
             maxOutputTokens == Min(contextWindow \div 2, Tok(DEFAULT_MAX_OUTPUT_TOKENS))
         IN  MkCaps(contextWindow - maxOutputTokens, maxOutputTokens, contextWindow,
                    a.vision, TRUE, IsThinkingModel(m))
    ELSE MkCaps(Tok(DEFAULT_MAX_OUTPUT_TOKENS), Tok(DEFAULT_MAX_OUTPUT_TOKENS),
                Tok(DEFAULT_CONTEXT_WINDOW), FALSE, TRUE, IsThinkingModel(m))

\* IChatModelInformation as BaseOpenAICompatibleLMProvider.getModelInfo builds
\* it from the capabilities, with or without capabilities.limits
NoInfo ==
    [set |-> FALSE, hasLimits |-> FALSE, max_prompt_tokens |-> 0, max_output_tokens |-> 0,
     contextWindow |-> 0, vision |-> FALSE, tool_calls |-> FALSE, thinking |-> FALSE]
SuperGetModelInfo(caps, withLimits) ==
    [set |-> TRUE, hasLimits |-> withLimits,
     max_prompt_tokens |-> IF withLimits THEN caps.maxInputTokens ELSE 0,
     max_output_tokens |-> IF withLimits THEN caps.maxOutputTokens ELSE 0,
     contextWindow |-> caps.contextWindow,
     vision |-> caps.vision, tool_calls |-> caps.toolCalling, thinking |-> caps.thinking]

\* getAllModels: knownModels[model.id] = { maxInputTokens: limits?.max_prompt_tokens ?? 4096, ... }
KnownEntry(info) ==
    MkCaps(IF info.hasLimits THEN info.max_prompt_tokens ELSE Tok(DEFAULT_CONTEXT_WINDOW),
           IF info.hasLimits THEN info.max_output_tokens ELSE Tok(DEFAULT_MAX_OUTPUT_TOKENS),
           info.contextWindow, info.vision, info.tool_calls, info.thinking)

\* ---------------------------------------------------- health responses
\* The answer to a GET: the request throws, answers with a non-success
\* status, answers with a body that is not JSON, or answers with JSON.
Resp(o, st, ver) == [outcome |-> o, status |-> st, version |-> ver]
NoResp == Resp("none", "absent", "absent")
HealthStatuses == {"ok", "healthy", "degraded", "absent"}
HealthVersions == {"absent", "0.9.0", "1.2.0"}
HealthResponses ==
    {Resp("throws", "absent", "absent"), Resp("notok", "absent", "absent"),
     Resp("badjson", "absent", "absent")}
        \cup {Resp("json", st, ver) : st \in HealthStatuses, ver \in HealthVersions}
ModelsResponses == {"throws", "notok", "ok"}

\* ----------------------------------------------------------- idle parts
\* no chat request is running
ChatIdle ==
    /\ cpc = "idle" /\ initialized = FALSE /\ registered = FALSE
    /\ cancelled = FALSE /\ aborted = FALSE /\ cLines = <<>>
    /\ reports = <<>> /\ chatLog = <<>>
    /\ serviceUrl = "" /\ chatUrl = "" /\ cvariant = "part_003"

\* most calls of the capability resolver that run at the same time
MaxCalls == 2
Calls == 1..MaxCalls
NoCall == [kind |-> "none", model |-> "", override |-> FALSE, resolved |-> FALSE]

\* no capability call is running
CapsIdle ==
    /\ prov = "rest" /\ src = [m \in Models |-> Answer("missing", 0, 0, FALSE, FALSE)]
    /\ limitsSet = TRUE /\ pinit = FALSE
    /\ modelCache = [m \in Models |-> NoInfo]
    /\ ppc = [p \in Calls |-> "idle"] /\ pcall = [p \in Calls |-> NoCall]
    /\ ptodo = [p \in Calls |-> <<>>] /\ pcaps = [p \in Calls |-> NoCaps]
    /\ presult = [p \in Calls |-> NoInfo]
    /\ known = [p \in Calls |-> [m \in Models |-> NoCaps]]

\* no version is being compared
VersionIdle == currentVersion = <<>> /\ vi = 0 /\ vsupported = "pending"

\* the answer to the catalog request: the request throws an error with a
\* message ("throws"), answers with a non-success status ("notok"), with a
\* body without `data` ("nodata"), with a `data` that is an object and no
\* array ("notarray"), with null ("null") or with the array of the entries
ListResp(kind, message, entries) == [kind |-> kind, message |-> message, entries |-> entries]
NoList == ListResp("none", "", <<>>)

\* no listing is running
ProbeIdle ==
    /\ hbase = "" /\ hpc = "off" /\ hresp = NoResp /\ mresp = "none"
    /\ hcheck = "pending" /\ hlog = <<>> /\ hresult = "pending"
    /\ hthrown = <<>> /\ herror = <<>>
    /\ hvariant = "provider" /\ hinit = FALSE /\ hlist = NoList
    /\ houtcomes = <<>> /\ hknown = {} /\ hwarn = {}

\* no health check is running
HealthIdle == ProbeIdle /\ VersionIdle

\* no response is being normalized
NormIdle ==
    /\ variant = "none" /\ input = <<>> /\ pos = 0 /\ buffer = <<>>
    /\ out = <<>> /\ nstate = "ended" /\ midSplit = FALSE

\* most requests normalized at the same time
MaxRequests == 2
Requests == 1..MaxRequests

\* no two requests are being normalized
PairIdle ==
    /\ qvariant = "oai"
    /\ qin = [r \in Requests |-> <<>>] /\ qpos = [r \in Requests |-> 0]
    /\ qbuf = [r \in Requests |-> <<>>] /\ qout = [r \in Requests |-> <<>>]
    /\ qstate = [r \in Requests |-> "ended"] /\ qmixed = FALSE

\* no replay stream is emitting
ReplayIdle ==
    /\ ytext = <<>> /\ yindex = 0 /\ ydata = FALSE /\ yend = FALSE
    /\ ygot = <<>> /\ yended = FALSE /\ ypc = "done"

StreamIdle == PairIdle /\ ReplayIdle

\* ------------------------------------------------------- generated input
DeltaVals == {"absent", "null", "a"}
MessageVals == {"absent", "null", "m"}

\* the choices of a generated document: the i-th carries index i - 1
ChoiceAt(i) ==
    {Choice(d, m, i - 1) : d \in DeltaVals, m \in MessageVals} \cup {NullChoice}

ChoiceArrays ==
    UNION {{cs \in [1..n -> UNION {ChoiceAt(i) : i \in 1..n}] :
                \A i \in 1..n : cs[i] \in ChoiceAt(i)} : n \in 0..MaxChoices}

Docs ==
    {ObjArr(cs, c) : cs \in ChoiceArrays, c \in BOOLEAN}
        \cup {ObjNoChoices(c) : c \in BOOLEAN}
        \cup {ObjScalarChoices(c) : c \in BOOLEAN}
        \cup {JsonNull(c) : c \in BOOLEAN}
        \cup {JsonNum(c) : c \in BOOLEAN}

DataLine(d) == DataPrefix \o <<J1(d), J2(d)>>

DualChoice == Choice("a", "m", 0)
DualDoc == ObjArr(<<DualChoice>>, TRUE)

\* every document, one per line
FullLines == {DataLine(d) : d \in Docs}

\* the lines multi-line streams are made of
CoreLines ==
    { DataLine(DualDoc),
      DataLine(ObjArr(<<Choice("a", "absent", 0)>>, FALSE)),
      DataLine(ObjNoChoices(FALSE)),
      <<SP>> \o DataLine(DualDoc),
      DataLine(DualDoc) \o <<CR>>,
      DoneLine,
      <<D5, SP, X>>,
      <<D5, SP, X, CR>>,
      <<X>>,
      <<CR>>,
      <<>> }

LineSeqs ==
    {<<l>> : l \in FullLines \cup CoreLines}
        \cup UNION {[1..n -> CoreLines] : n \in 2..MaxLines}

\* a stream ends with or without a final newline
Streams == {Join(ls) : ls \in LineSeqs} \cup {WithNewlines(ls) : ls \in LineSeqs}

Variants == {"cb", "sse", "ts", "oai"}

InitNorm ==
    /\ variant \in Variants
    /\ input \in Streams
    /\ pos = 0
    /\ buffer = <<>>
    /\ out = <<>>
    /\ nstate = "streaming"
    /\ midSplit = FALSE
    /\ ChatIdle /\ CapsIdle /\ HealthIdle /\ StreamIdle

\* ------------------------------------------------------ the next chunk
Chunk(k) == SubSeq(input, pos + 1, pos + k)

Arrive(k) ==
    /\ pos' = pos + k
    /\ midSplit' = (midSplit \/ (pos + k < Len(input) /\ input[pos + k] # NL))
    /\ UNCHANGED <<variant, input, nstate>>

\* the buffer as it would be were the incomplete line dropped, not kept
BufferDropped(lines) == <<>>

\* buffer = lines.pop() || '': the last, incomplete line stays in the buffer
BufferAfterOai(lines) == lines[Len(lines)]
BufferAfterTs(lines) == lines[Len(lines)]

\* openAIEndpoint.ts: originalBody.on('data', ...)
OnDataOai ==
    /\ variant = "oai" /\ nstate = "streaming"
    /\ \E k \in 1..(Len(input) - pos) :
          LET lines == Split(buffer \o Chunk(k))
          IN  /\ buffer' = BufferAfterOai(lines)
              /\ out' = out \o WithNewlines(Map(FoundryLocalStreamLine, AllButLast(lines)))
              /\ Arrive(k)

\* what the end handler pushes for the bytes left in the buffer
EndPushOai(b) == IF Trim(b) # <<>> THEN b \o <<NL>> ELSE <<>>

\* openAIEndpoint.ts: originalBody.on('end', ...)
OnEndOai ==
    /\ variant = "oai" /\ nstate = "streaming" /\ pos = Len(input)
    /\ out' = out \o EndPushOai(buffer)
    /\ nstate' = "ended"
    /\ UNCHANGED <<variant, input, pos, buffer, midSplit>>

\* the error handler as it would be were the buffer flushed before the
\* stream is destroyed
DestroyFlushes(b) == IF Trim(b) # <<>> THEN b \o <<NL>> ELSE <<>>

\* destroy(err): what the error handlers push for the bytes left in the
\* buffer before the transformed stream is destroyed with the error
DestroyPush(b) == <<>>

\* openAIEndpoint.ts: originalBody.on('error', err => transformedStream.destroy(err))
OnErrorOai ==
    /\ variant = "oai" /\ nstate = "streaming"
    /\ out' = out \o DestroyPush(buffer)
    /\ nstate' = "errored"
    /\ UNCHANGED <<variant, input, pos, buffer, midSplit>>

\* foundryLocalEndpoint.ts (3): originalStream.on('error', error =>
\* transformStream.destroy(error)); flush is not called
OnErrorTs ==
    /\ variant = "ts" /\ nstate = "streaming"
    /\ out' = out \o DestroyPush(buffer)
    /\ nstate' = "errored"
    /\ UNCHANGED <<variant, input, pos, buffer, midSplit>>

\* foundryLocalEndpoint.ts (3): Transform.transform
TransformTs ==
    /\ variant = "ts" /\ nstate = "streaming"
    /\ \E k \in 1..(Len(input) - pos) :
          LET lines == Split(buffer \o Chunk(k))
          IN  /\ buffer' = BufferAfterTs(lines)
              /\ out' = out \o WithNewlines(Map(TransformLine, AllButLast(lines)))
              /\ Arrive(k)

\* what flush pushes for the bytes left in the buffer
FlushPushTs(b) == IF Trim(b) # <<>> THEN TransformLine(b) \o <<NL>> ELSE <<>>

\* foundryLocalEndpoint.ts (3): Transform.flush
FlushTs ==
    /\ variant = "ts" /\ nstate = "streaming" /\ pos = Len(input)
    /\ out' = out \o FlushPushTs(buffer)
    /\ nstate' = "ended"
    /\ UNCHANGED <<variant, input, pos, buffer, midSplit>>

\* foundryLocalEndpoint.ts (2): stream.on('data', chunk => data += chunk)
OnDataSse ==
    /\ variant = "sse" /\ nstate = "streaming"
    /\ \E k \in 1..(Len(input) - pos) :
          /\ buffer' = buffer \o Chunk(k)
          /\ out' = out
          /\ Arrive(k)

\* foundryLocalEndpoint.ts (2): stream.on('end', ...) resolves the transformed text
OnEndSse ==
    /\ variant = "sse" /\ nstate = "streaming" /\ pos = Len(input)
    /\ out' = TransformSSEData(buffer)
    /\ nstate' = "ended"
    /\ UNCHANGED <<variant, input, pos, buffer, midSplit>>

\* foundryLocalEndpoint.ts (1): transformedFinishedCb(chunk)
OnChunkCb ==
    /\ variant = "cb" /\ nstate = "streaming"
    /\ \E k \in 1..(Len(input) - pos) :
          /\ out' = out \o TransformedFinishedCb(Chunk(k))
          /\ buffer' = buffer
          /\ Arrive(k)

\* foundryLocalEndpoint.ts (1): the request completes
OnEndCb ==
    /\ variant = "cb" /\ nstate = "streaming" /\ pos = Len(input)
    /\ nstate' = "ended"
    /\ UNCHANGED <<variant, input, pos, buffer, out, midSplit>>

NextNorm ==
    \/ (OnDataOai /\ UNCHANGED <<chatVars, capsVars, healthVars, streamVars>>)
    \/ (OnEndOai /\ UNCHANGED <<chatVars, capsVars, healthVars, streamVars>>)
    \/ (TransformTs /\ UNCHANGED <<chatVars, capsVars, healthVars, streamVars>>)
    \/ (FlushTs /\ UNCHANGED <<chatVars, capsVars, healthVars, streamVars>>)
    \/ (OnDataSse /\ UNCHANGED <<chatVars, capsVars, healthVars, streamVars>>)
    \/ (OnEndSse /\ UNCHANGED <<chatVars, capsVars, healthVars, streamVars>>)
    \/ (OnChunkCb /\ UNCHANGED <<chatVars, capsVars, healthVars, streamVars>>)
    \/ (OnEndCb /\ UNCHANGED <<chatVars, capsVars, healthVars, streamVars>>)
    \/ (OnErrorOai /\ UNCHANGED <<chatVars, capsVars, healthVars, streamVars>>)
    \/ (OnErrorTs /\ UNCHANGED <<chatVars, capsVars, healthVars, streamVars>>)

SpecNorm == InitNorm /\ [][NextNorm]_vars

\* =====================================================================
\*  Several responses normalized at the same time
\*  (transformFoundryLocalStream, _transformStream)
\* =====================================================================
\* the streams the requests are drawn from
PairStreams ==
    LET lineSeqs == { <<DataLine(DualDoc)>>,
                      <<DataLine(DualDoc), <<X>>>>,
                      <<<<X>>, DataLine(DualDoc)>> }
    IN  {Join(ls) : ls \in lineSeqs} \cup {WithNewlines(ls) : ls \in lineSeqs}

\* the buffer as it would be were it one variable of the endpoint that
\* all of its requests write to
BufferShared(r) == 1

\* `let buffer = ''` is declared inside the call: each call of the
\* normalizer, hence each request, closes over a buffer of its own
BufferOf(r) == r

\* what the wired-in normalizer turns one complete line into
PairLine(line) ==
    IF qvariant = "oai" THEN FoundryLocalStreamLine(line) ELSE TransformLine(line)

\* what the wired-in normalizer pushes at the end for the bytes left
PairEndPush(b) == IF qvariant = "oai" THEN EndPushOai(b) ELSE FlushPushTs(b)

InitPair ==
    /\ qvariant \in {"ts", "oai"}
    /\ qin \in [Requests -> PairStreams]
    /\ qpos = [r \in Requests |-> 0]
    /\ qbuf = [r \in Requests |-> <<>>]
    /\ qout = [r \in Requests |-> <<>>]
    /\ qstate = [r \in Requests |-> "streaming"]
    /\ qmixed = FALSE
    /\ ReplayIdle
    /\ NormIdle /\ ChatIdle /\ CapsIdle /\ HealthIdle

\* originalBody.on('data', ...) / Transform.transform of request r
PairData(r) ==
    /\ qstate[r] = "streaming"
    /\ \E k \in 1..(Len(qin[r]) - qpos[r]) :
          LET lines == Split(qbuf[BufferOf(r)] \o SubSeq(qin[r], qpos[r] + 1, qpos[r] + k))
          IN  /\ qbuf' = [qbuf EXCEPT ![BufferOf(r)] = lines[Len(lines)]]
              /\ qout' = [qout EXCEPT ![r] = @ \o WithNewlines(Map(PairLine, AllButLast(lines)))]
              /\ qpos' = [qpos EXCEPT ![r] = @ + k]
              /\ qmixed' = (qmixed \/ (lines[Len(lines)] # <<>> /\
                               \E s \in Requests \ {r} :
                                   qstate[s] = "streaming" /\ qpos[s] > 0 /\
                                   qpos[s] < Len(qin[s]) /\ qin[s][qpos[s]] # NL))
    /\ UNCHANGED <<qvariant, qin, qstate>>

\* originalBody.on('end', ...) / Transform.flush of request r
PairEnd(r) ==
    /\ qstate[r] = "streaming" /\ qpos[r] = Len(qin[r])
    /\ qout' = [qout EXCEPT ![r] = @ \o PairEndPush(qbuf[BufferOf(r)])]
    /\ qstate' = [qstate EXCEPT ![r] = "ended"]
    /\ UNCHANGED <<qvariant, qin, qpos, qbuf, qmixed>>

NextPair ==
    \/ \E r \in Requests : PairData(r) /\ UNCHANGED <<normVars, chatVars, capsVars, healthVars, replayVars>>
    \/ \E r \in Requests : PairEnd(r) /\ UNCHANGED <<normVars, chatVars, capsVars, healthVars, replayVars>>

SpecPair == InitPair /\ [][NextPair]_vars

\* =====================================================================
\*  The replay stream: foundryLocalEndpoint.ts (2),
\*  _createReadableStreamFromText
\* =====================================================================
\* the transformed texts a replay stream is built from
ReplayTexts == {TransformSSEData(Join(ls)) : ls \in [1..MaxLines -> CoreLines]}

\* text.split('\n').map(line => line + '\n')
Chunks(text) == [i \in 1..Len(Split(text)) |-> Split(text)[i] \o <<NL>>]

InitReplay ==
    /\ ytext \in ReplayTexts
    /\ yindex = 0 /\ ydata = FALSE /\ yend = FALSE
    /\ ygot = <<>> /\ yended = FALSE /\ ypc = "emitting"
    /\ PairIdle
    /\ NormIdle /\ ChatIdle /\ CapsIdle /\ HealthIdle

\* stream.on('data', callback) by the consumer
ReplayOnData ==
    /\ ~ydata
    /\ ydata' = TRUE
    /\ UNCHANGED <<ytext, yindex, yend, ygot, yended, ypc>>

\* stream.on('end', callback) by the consumer
ReplayOnEnd ==
    /\ ~yend
    /\ yend' = TRUE
    /\ UNCHANGED <<ytext, yindex, ydata, ygot, yended, ypc>>

\* one pass of the emitting loop: the chunk goes to the data listener if
\* one is set, and the loop waits for the next timer
ReplayEmit ==
    /\ ypc = "emitting" /\ yindex < Len(Chunks(ytext))
    /\ yindex' = yindex + 1
    /\ ygot' = IF ydata THEN Append(ygot, Chunks(ytext)[yindex + 1]) ELSE ygot
    /\ UNCHANGED <<ytext, ydata, yend, yended, ypc>>

\* after the loop: endCallbacks.forEach(cb => cb())
ReplayEnd ==
    /\ ypc = "emitting" /\ yindex = Len(Chunks(ytext))
    /\ yended' = yend
    /\ ypc' = "done"
    /\ UNCHANGED <<ytext, yindex, ydata, yend, ygot>>

NextReplay ==
    \/ (ReplayOnData /\ UNCHANGED <<normVars, chatVars, capsVars, healthVars, pairVars>>)
    \/ (ReplayOnEnd /\ UNCHANGED <<normVars, chatVars, capsVars, healthVars, pairVars>>)
    \/ (ReplayEmit /\ UNCHANGED <<normVars, chatVars, capsVars, healthVars, pairVars>>)
    \/ (ReplayEnd /\ UNCHANGED <<normVars, chatVars, capsVars, healthVars, pairVars>>)

SpecReplay == InitReplay /\ [][NextReplay]_vars


\* =====================================================================
\*  The stream normalizers: claims C1, C2, C3, C4, C6
\* =====================================================================
\* the complete lines that have arrived / that have been emitted
InLines == AllButLast(Split(SubSeq(input, 1, pos)))
OutLines == AllButLast(Split(out))

\* the unterminated last line of the whole stream
Remainder == Last(Split(input))

\* a line `data: <json>` whose payload parses and has a `choices` array
IsChoicesEvent(line) ==
    /\ StartsWithData(line)
    /\ ParseOk(Substring6(line))
    /\ Parse(Substring6(line)).kind = "obj"
    /\ Parse(Substring6(line)).ch = "arr"

EventOf(line) == Parse(Substring6(line))

\* A choice carries both `delta` and `message`: it has both keys, whatever
\* their values (byKey), or it has a value other than null for both.
CarriesBoth(c, byKey) ==
    /\ ~c.nul
    /\ IF byKey THEN c.delta # "absent" /\ c.message # "absent"
       ELSE Truthy(c.delta) /\ Truthy(c.message)

WithoutMessageWhereBoth(v, byKey) ==
    [v EXCEPT !.choices =
        [i \in 1..Len(v.choices) |->
            IF CarriesBoth(v.choices[i], byKey)
            THEN [v.choices[i] EXCEPT !.message = "absent"]
            ELSE v.choices[i]]]

\* C1: every complete line `data: <json>` with a `choices` array is emitted
\* as the same event, except that each choice carrying both `delta` and
\* `message` has lost `message` (_transformLine, _transformSSEData).  The
\* claim is taken to hold where it holds under either reading of "carrying".
C1_MessageRemovedWhereBoth ==
    (variant \in {"ts", "sse"} /\ nstate = "ended") =>
        \A i \in 1..Len(InLines) :
            IsChoicesEvent(InLines[i]) =>
                /\ i <= Len(Split(out))
                /\ IsChoicesEvent(Split(out)[i])
                /\ \E byKey \in BOOLEAN :
                      EventOf(Split(out)[i])
                          = WithoutMessageWhereBoth(EventOf(InLines[i]), byKey)

\* C2: no emitted event contains a choice that carries both `delta` and
\* `message`, however the stream is chunked and whether or not its last line
\* ends with a newline (transformFoundryLocalStream, transformedFinishedCb).
\* Only a choice with a value for both fields is counted, and only an event
\* whose choices are all objects.
C2_NoDeltaWithMessage ==
    variant \in {"oai", "cb"} =>
        \A i \in 1..Len(Split(out)) :
            (IsChoicesEvent(Split(out)[i]) /\ ~ThrowsTypeError(EventOf(Split(out)[i]))) =>
                \A k \in 1..Len(EventOf(Split(out)[i]).choices) :
                    ~CarriesBoth(EventOf(Split(out)[i]).choices[k], FALSE)

\* a line the normalizer cannot interpret: not a data line, a payload that
\* is not JSON, or JSON without a `choices` array
Uninterpretable(line) == ~IsChoicesEvent(line)

\* C3: every line the normalizer cannot interpret is emitted byte-for-byte
\* as it arrived (_transformLine, transformFoundryLocalStream).
C3_PassThroughByteIdentical ==
    variant \in {"ts", "oai"} =>
        \A i \in 1..Len(InLines) :
            Uninterpretable(InLines[i]) =>
                i <= Len(OutLines) /\ OutLines[i] = InLines[i]

\* the rule the wired-in normalizer applies to one line
LineRule(line) ==
    IF variant = "ts" THEN TransformLine(line) ELSE FoundryLocalStreamLine(line)

RunOai(text) ==
    WithNewlines(Map(FoundryLocalStreamLine, AllButLast(Split(text))))
        \o EndPushOai(Last(Split(text)))
RunSse(text) == TransformSSEData(text)

\* C6: normalizing the normalizer's own output yields that output again
\* (_transformSSEData, transformFoundryLocalStream).
C6_Idempotent ==
    /\ (variant = "sse" /\ nstate = "ended") => RunSse(out) = out
    /\ (variant = "oai" /\ nstate = "ended") => RunOai(out) = out


\* =====================================================================
\*  The streaming chat request: part_003, provideLanguageModelChatResponse
\* =====================================================================
\* most lines of a generated chat response
MaxChatLines == 3

\* a data line that carries the text part t in choices[0].delta.content
TokenLine(t) == DataLine(ObjArr(<<Choice(t, "absent", 0)>>, TRUE))

ChatLines == {TokenLine("a"), TokenLine("b"), DoneLine, <<>>}
ChatLineSeqs == UNION {[1..n -> ChatLines] : n \in 1..MaxChatLines}
ChatStreams ==
    {Join(ls) : ls \in ChatLineSeqs} \cup {WithNewlines(ls) : ls \in ChatLineSeqs}

\* the service URL the provider is constructed with; "" stands for undefined
ConfiguredUrls == {"", "http://custom-host:8080", "http://custom-host:8080/"}

\* the constructor: baseUrl = foundryServiceUrl || 'http://localhost:5273'
BaseUrl(foundryServiceUrl) ==
    IF foundryServiceUrl # "" THEN foundryServiceUrl ELSE "http://localhost:5273"

\* what the SDK manager's `endpoint` holds when the chat URL is built: the
\* endpoint auto-discovery found, or "" for none
ManagerEndpoints == {"", "http://127.0.0.1:5272/v1"}

InitChat ==
    /\ variant = "inline"
    /\ input \in ChatStreams
    /\ pos = 0 /\ buffer = <<>> /\ out = <<>>
    /\ nstate = "streaming" /\ midSplit = FALSE
    /\ cpc = "call"
    /\ cvariant \in {"part_003", "part_004", "part_002"}
    /\ initialized \in (IF cvariant = "part_002" THEN {FALSE} ELSE BOOLEAN)
    /\ registered = FALSE /\ cancelled = FALSE /\ aborted = FALSE
    /\ cLines = <<>> /\ reports = <<>> /\ chatLog = <<>>
    /\ serviceUrl \in {BaseUrl(u) : u \in (IF cvariant = "part_002" THEN {""}
                                            ELSE ConfiguredUrls)}
    /\ chatUrl = ""
    /\ CapsIdle /\ HealthIdle /\ StreamIdle

\* chunk.split('\n').filter(l => l.trim() !== '')
ChunkLines(chunk) == SelectSeq(Split(chunk), LAMBDA l : Trim(l) # <<>>)

\* json.choices?.[0]?.delta?.content || '': the content of a delta is what
\* names the delta; "null" stands for the empty string
DeltaContent(json) ==
    IF /\ json.kind = "obj" /\ json.ch = "arr" /\ Len(json.choices) >= 1
       /\ ~json.choices[1].nul /\ Truthy(json.choices[1].delta)
    THEN json.choices[1].delta
    ELSE "null"

\* the body of `for (const line of lines)`: what one line has progress.report
\* called with; `json.choices` on the JSON value null throws and is caught
LineReports(line) ==
    LET data == Substring6(line)
    IN  IF ~StartsWithData(line) THEN <<>>
        ELSE IF data = <<DONE>> THEN <<>>
        ELSE IF ParseOk(data) /\ Parse(data).kind # "null"
                /\ Truthy(DeltaContent(Parse(data)))
             THEN <<DeltaContent(Parse(data))>>
             ELSE <<>>

\* token.onCancellationRequested(() => abortCtrl.abort()); fetch(url, {signal}).
\* A token that was cancelled before calls the new listener without waiting
\* for a further event, which is taken into this step: the request is then
\* aborted before it is sent.
\* endpoint = manager.endpoint || this._serviceUrl || 'http://localhost:5273';
\* url = endpoint + '/chat/completions'
RegisterAndFetch ==
    /\ registered' = TRUE
    /\ aborted' = cancelled
    /\ chatLog' = IF cancelled THEN chatLog ELSE Append(chatLog, "fetch")
    /\ \E endpoint \in ManagerEndpoints :
          chatUrl' = IF cancelled THEN chatUrl
                     ELSE (IF endpoint # "" THEN endpoint ELSE serviceUrl)
                              \o "/chat/completions"
    /\ cpc' = "fetch"

\* what the call does once `_initialized` is set: part_003 goes on in
\* _checkServiceHealth to listCatalogModels; part_004 goes on in getModelInfo
\* and has no check of the service
OnceInitialized ==
    IF cvariant = "part_003"
    THEN cpc' = "health" /\ chatLog' = Append(chatLog, "listCatalogModels")
    ELSE cpc' = "modelInfo" /\ chatLog' = Append(chatLog, "getModelInfo")

\* _ensureManagerStarted / _ensureInitialized up to its first await, or what
\* follows it where the provider is initialized
ChatCall ==
    /\ cpc = "call"
    /\ IF initialized
       THEN OnceInitialized
       ELSE cpc' = "starting" /\ chatLog' = Append(chatLog, "startService")
    /\ UNCHANGED <<initialized, registered, cancelled, aborted, cLines, reports>>
    /\ UNCHANGED normVars
    /\ UNCHANGED <<serviceUrl, chatUrl, cvariant>>

\* startService() settles (in part_002 with isServiceRunning); part_002's
\* ensureServiceAndModel(modelId) goes on to init(alias)
ChatServiceStarted ==
    /\ cpc = "starting"
    /\ \E ok \in BOOLEAN :
          IF ~ok THEN cpc' = "failed" /\ chatLog' = chatLog
          ELSE IF cvariant = "part_002"
          THEN cpc' = "modelInit" /\ chatLog' = Append(chatLog, "init(model)")
          ELSE cpc' = "init" /\ chatLog' = Append(chatLog, "init(null)")
    /\ UNCHANGED <<initialized, registered, cancelled, aborted, cLines, reports>>
    /\ UNCHANGED normVars
    /\ UNCHANGED <<serviceUrl, chatUrl, cvariant>>

\* init(null) settles
ChatManagerInitialized ==
    /\ cpc = "init"
    /\ \E ok \in BOOLEAN :
          IF ok
          THEN initialized' = TRUE /\ OnceInitialized
          ELSE /\ initialized' = initialized /\ cpc' = "failed" /\ chatLog' = chatLog
    /\ UNCHANGED <<registered, cancelled, aborted, cLines, reports>>
    /\ UNCHANGED normVars
    /\ UNCHANGED <<serviceUrl, chatUrl, cvariant>>

\* listCatalogModels() settles: _checkServiceHealth returns or throws
ChatHealthChecked ==
    /\ cpc = "health"
    /\ \E ok \in BOOLEAN :
          IF ok THEN cpc' = "modelInfo" /\ chatLog' = Append(chatLog, "getModelInfo")
          ELSE cpc' = "failed" /\ chatLog' = chatLog
    /\ UNCHANGED <<initialized, registered, cancelled, aborted, cLines, reports>>
    /\ UNCHANGED normVars
    /\ UNCHANGED <<serviceUrl, chatUrl, cvariant>>

\* part_004: the endpoint is created for baseUrl + '/chat/completions' and
\* handed to the wrapper, which sends the request unless the token has fired
\* (part_002: the base class does the same with the manager's endpoint as
\* base URL)
HandOver ==
    /\ cpc' = "handed"
    /\ chatLog' = IF cancelled THEN chatLog ELSE Append(chatLog, "fetch")
    /\ \E endpoint \in ManagerEndpoints \ {""} :
          chatUrl' = IF cancelled THEN chatUrl
                     ELSE IF cvariant = "part_002" THEN endpoint \o "/chat/completions"
                     ELSE serviceUrl \o "/v1/chat/completions"
    /\ UNCHANGED <<registered, aborted>>

\* getModelInfo(model.id) settles; in part_004 it answers with defaults
\* where the SDK fails
ChatModelInfo ==
    /\ cpc = "modelInfo"
    /\ \E ok \in BOOLEAN :
          IF cvariant = "part_004" THEN HandOver
          ELSE IF cvariant = "part_002"
          THEN IF ok THEN HandOver
               ELSE /\ cpc' = "failed"
                    /\ UNCHANGED <<registered, aborted, chatUrl, chatLog>>
          ELSE IF ok THEN RegisterAndFetch
          ELSE /\ cpc' = "modelInit" /\ chatLog' = Append(chatLog, "init(model)")
               /\ UNCHANGED <<registered, aborted, chatUrl>>
    /\ UNCHANGED <<initialized, cancelled, cLines, reports, serviceUrl, cvariant>>
    /\ UNCHANGED normVars

\* init(model.id) settles: part_003 goes on either way; part_002's
\* ensureServiceAndModel logs the error and throws it again, and getModelInfo
\* goes on to the SDK's getModelInfo only where init has succeeded
ChatModelInit ==
    /\ cpc = "modelInit"
    /\ \E ok \in BOOLEAN :
          IF cvariant = "part_003" THEN RegisterAndFetch
          ELSE /\ IF ok THEN cpc' = "modelInfo" /\ chatLog' = Append(chatLog, "getModelInfo")
                  ELSE cpc' = "failed" /\ chatLog' = chatLog
               /\ UNCHANGED <<registered, aborted, chatUrl>>
    /\ UNCHANGED <<initialized, cancelled, cLines, reports, serviceUrl, cvariant>>
    /\ UNCHANGED normVars

\* fetch settles with a response: !response.ok and a body without getReader throw
ChatResponse ==
    /\ cpc = "fetch" /\ ~aborted
    /\ \E r \in {"ok", "notok", "nobody"} :
          cpc' = IF r = "ok" THEN "stream" ELSE "failed"
    /\ UNCHANGED <<initialized, registered, cancelled, aborted, cLines, reports, chatLog>>
    /\ UNCHANGED normVars
    /\ UNCHANGED <<serviceUrl, chatUrl, cvariant>>

\* signal: abortCtrl.signal: after abort() the pending fetch or reader.read()
\* rejects and the function throws
ChatAborted ==
    /\ cpc \in {"fetch", "stream"} /\ aborted
    /\ cpc' = "failed"
    /\ UNCHANGED <<initialized, registered, cancelled, aborted, cLines, reports, chatLog>>
    /\ UNCHANGED normVars
    /\ UNCHANGED <<serviceUrl, chatUrl, cvariant>>

\* reader.read() resolves with a chunk, which is decoded and split into lines
ChatRead ==
    /\ cpc = "stream" /\ ~aborted
    /\ \E k \in 1..(Len(input) - pos) :
          /\ cLines' = ChunkLines(Chunk(k))
          /\ cpc' = IF ChunkLines(Chunk(k)) = <<>> THEN "stream" ELSE "chunk"
          /\ Arrive(k)
    /\ UNCHANGED <<buffer, out>>
    /\ UNCHANGED <<initialized, registered, cancelled, aborted, reports, chatLog>>
    /\ UNCHANGED <<serviceUrl, chatUrl, cvariant>>

\* One pass of `for (const line of lines)`.  progress.report runs the
\* caller's code, which may cancel the token: the listener then aborts at once.
ChatLine ==
    /\ cpc = "chunk"
    /\ reports' = reports \o LineReports(Head(cLines))
    /\ cLines' = Tail(cLines)
    /\ cpc' = IF Tail(cLines) = <<>> THEN "stream" ELSE "chunk"
    /\ \E cancelsInReport \in BOOLEAN :
          IF cancelsInReport /\ LineReports(Head(cLines)) # <<>> /\ ~cancelled
          THEN cancelled' = TRUE /\ aborted' = TRUE
          ELSE UNCHANGED <<cancelled, aborted>>
    /\ UNCHANGED <<initialized, registered, chatLog>>
    /\ UNCHANGED normVars
    /\ UNCHANGED <<serviceUrl, chatUrl, cvariant>>

\* reader.read() resolves with done
ChatDone ==
    /\ cpc = "stream" /\ ~aborted /\ pos = Len(input)
    /\ cpc' = "done"
    /\ UNCHANGED <<initialized, registered, cancelled, aborted, cLines, reports, chatLog>>
    /\ UNCHANGED normVars
    /\ UNCHANGED <<serviceUrl, chatUrl, cvariant>>

\* The caller cancels the token between two turns of the event loop; the
\* listener, where registered, calls abortCtrl.abort().
ChatCancel ==
    /\ ~cancelled /\ cpc # "chunk"
    /\ cancelled' = TRUE
    /\ aborted' = registered
    /\ UNCHANGED <<cpc, initialized, registered, cLines, reports, chatLog>>
    /\ UNCHANGED normVars
    /\ UNCHANGED <<serviceUrl, chatUrl, cvariant>>

NextChat ==
    \/ (ChatCall /\ UNCHANGED <<capsVars, healthVars, streamVars>>)
    \/ (ChatServiceStarted /\ UNCHANGED <<capsVars, healthVars, streamVars>>)
    \/ (ChatManagerInitialized /\ UNCHANGED <<capsVars, healthVars, streamVars>>)
    \/ (ChatHealthChecked /\ UNCHANGED <<capsVars, healthVars, streamVars>>)
    \/ (ChatModelInfo /\ UNCHANGED <<capsVars, healthVars, streamVars>>)
    \/ (ChatModelInit /\ UNCHANGED <<capsVars, healthVars, streamVars>>)
    \/ (ChatResponse /\ UNCHANGED <<capsVars, healthVars, streamVars>>)
    \/ (ChatAborted /\ UNCHANGED <<capsVars, healthVars, streamVars>>)
    \/ (ChatRead /\ UNCHANGED <<capsVars, healthVars, streamVars>>)
    \/ (ChatLine /\ UNCHANGED <<capsVars, healthVars, streamVars>>)
    \/ (ChatDone /\ UNCHANGED <<capsVars, healthVars, streamVars>>)
    \/ (ChatCancel /\ UNCHANGED <<capsVars, healthVars, streamVars>>)

SpecChat == InitChat /\ [][NextChat]_vars

\* ------------------------------------------------------------ claim C5
\* C5: in streamChat, once the cancellation signal has fired, the HTTP
\* request in flight is aborted and progress.report is never called again,
\* whatever bytes had already arrived or are still to arrive.
C5_NoReportAfterCancel ==
    /\ [](cancelled /\ registered => aborted)
    /\ [][cancelled => reports' = reports]_vars

\* C5, its first half alone: once the token has fired and the listener is
\* registered, the request is aborted.
C5_AbortedOnceCancelled == cancelled /\ registered => aborted

\* a request cancelled from inside progress.report, with lines of the chunk
\* in hand still to be handled
C5_CancelledMidChunk ==
    /\ cancelled /\ aborted /\ cpc = "chunk"
    /\ Len(reports) >= 1
    /\ LineReports(Head(cLines)) # <<>>


\* =====================================================================
\*  The capability resolver and its cache: getModelInfo, getAllModels
\*  (foundryLocalProvider.ts: "rest"; part_004: "sdk")
\* =====================================================================
InitCaps ==
    /\ prov \in {"rest", "sdk"}
    /\ src \in [Models -> SrcData]
    /\ limitsSet \in BOOLEAN
    /\ pinit = FALSE
    /\ modelCache = [m \in Models |-> NoInfo]
    /\ ppc = [p \in Calls |-> "idle"] /\ pcall = [p \in Calls |-> NoCall]
    /\ ptodo = [p \in Calls |-> <<>>] /\ pcaps = [p \in Calls |-> NoCaps]
    /\ presult = [p \in Calls |-> NoInfo]
    /\ known = [p \in Calls |-> [m \in Models |-> NoCaps]]
    /\ NormIdle /\ ChatIdle /\ HealthIdle /\ StreamIdle

\* the cache as it would be were the result not stored
CacheSetSkipped(cache, m, info) == cache

\* this._modelCache.set(modelId, chatModelInfo)
CacheSet(cache, m, info) == [cache EXCEPT ![m] = info]

\* where a call goes once the provider is initialized
AfterInit(call) == IF call.kind = "list" THEN "catalog" ELSE "cache"

\* getModelInfo(m, apiKey, overrides?) or getAllModels() is called; the SDK
\* provider starts the service where `_initialized` is not set
CapsCall(p) ==
    /\ ppc[p] = "idle"
    /\ \E call \in {[kind |-> "info", model |-> m, override |-> ov, resolved |-> FALSE] :
                        m \in Models, ov \in BOOLEAN}
                    \cup {[kind |-> "list", model |-> "", override |-> FALSE,
                           resolved |-> FALSE]} :
          /\ pcall' = [pcall EXCEPT ![p] = call]
          /\ ptodo' = [ptodo EXCEPT ![p] = IF call.kind = "list" THEN Catalog ELSE <<>>]
          /\ ppc' = [ppc EXCEPT ![p] =
                        IF prov = "sdk" /\ ~pinit THEN "starting" ELSE AfterInit(call)]
    /\ UNCHANGED <<prov, src, limitsSet, pinit, modelCache, pcaps, presult, known>>

\* part_004 _ensureInitialized: startService() and init(null) settle
CapsStarted(p) ==
    /\ ppc[p] = "starting"
    /\ \E ok \in BOOLEAN :
          IF ok
          THEN pinit' = TRUE /\ ppc' = [ppc EXCEPT ![p] = AfterInit(pcall[p])]
          ELSE pinit' = pinit /\ ppc' = [ppc EXCEPT ![p] = "failed"]
    /\ UNCHANGED <<prov, src, limitsSet, modelCache, pcall, ptodo, pcaps, presult, known>>

\* getAllModels: the service check and the catalog request settle
CapsCatalog(p) ==
    /\ ppc[p] = "catalog"
    /\ \E ok \in BOOLEAN : ppc' = [ppc EXCEPT ![p] = IF ok THEN "next" ELSE "failed"]
    /\ UNCHANGED <<prov, src, limitsSet, pinit, modelCache, pcall, ptodo, pcaps,
                   presult, known>>

\* getAllModels: `for (const model of ...)` calls getModelInfo(model.id, '', undefined)
CapsNext(p) ==
    /\ ppc[p] = "next"
    /\ IF ptodo[p] = <<>>
       THEN ppc' = [ppc EXCEPT ![p] = "done"] /\ pcall' = pcall
       ELSE /\ ppc' = [ppc EXCEPT ![p] = "cache"]
            /\ pcall' = [pcall EXCEPT ![p].model = Head(ptodo[p]), ![p].resolved = FALSE]
    /\ UNCHANGED <<prov, src, limitsSet, pinit, modelCache, ptodo, pcaps, presult, known>>

\* getModelInfo returns info to its caller: the caller of the provider, or
\* the loop of getAllModels, which adds the entry (and, in
\* foundryLocalProvider.ts, sets the cache)
Return(p, info, cache) ==
    IF pcall[p].kind = "info"
    THEN /\ presult' = [presult EXCEPT ![p] = info]
         /\ ppc' = [ppc EXCEPT ![p] = "done"]
         /\ modelCache' = cache
         /\ UNCHANGED <<known, ptodo>>
    ELSE /\ known' = [known EXCEPT ![p][pcall[p].model] = KnownEntry(info)]
         /\ ptodo' = [ptodo EXCEPT ![p] = Tail(ptodo[p])]
         /\ ppc' = [ppc EXCEPT ![p] = "next"]
         /\ modelCache' = IF prov = "rest" THEN CacheSet(cache, pcall[p].model, info)
                          ELSE cache
         /\ UNCHANGED presult

\* getModelInfo: if (this._modelCache.has(modelId)) return ...; if
\* (!modelCapabilities) the metadata is asked for, else super.getModelInfo is called
CapsCacheCheck(p) ==
    /\ ppc[p] = "cache"
    /\ IF modelCache[pcall[p].model].set
       THEN Return(p, modelCache[pcall[p].model], modelCache) /\ pcaps' = pcaps
       ELSE /\ ppc' = [ppc EXCEPT ![p] = IF pcall[p].override THEN "super" ELSE "resolve"]
            /\ pcaps' = [pcaps EXCEPT ![p] = IF pcall[p].override THEN OverrideCaps ELSE @]
            /\ UNCHANGED <<modelCache, presult, known, ptodo>>
    /\ UNCHANGED <<prov, src, limitsSet, pinit, pcall>>

\* the metadata source has answered: the capabilities are built and
\* super.getModelInfo is called
CapsResolved(p) ==
    /\ ppc[p] = "resolve"
    /\ pcaps' = [pcaps EXCEPT ![p] =
                    IF prov = "sdk" THEN SdkCaps(pcall[p].model, src[pcall[p].model])
                    ELSE RestCaps(pcall[p].model, src[pcall[p].model])]
    /\ pcall' = [pcall EXCEPT ![p].resolved = TRUE]
    /\ ppc' = [ppc EXCEPT ![p] = "super"]
    /\ UNCHANGED <<prov, src, limitsSet, pinit, modelCache, ptodo, presult, known>>

\* super.getModelInfo has answered; part_004 sets the cache and returns
CapsSuper(p) ==
    /\ ppc[p] = "super"
    /\ LET chatModelInfo == SuperGetModelInfo(pcaps[p], limitsSet)
       IN  Return(p, chatModelInfo,
                  IF prov = "sdk" THEN CacheSet(modelCache, pcall[p].model, chatModelInfo)
                  ELSE modelCache)
    /\ UNCHANGED <<prov, src, limitsSet, pinit, pcall, pcaps>>

NextCaps ==
    \/ \E p \in Calls : CapsCall(p) /\ UNCHANGED <<normVars, chatVars, healthVars, streamVars>>
    \/ \E p \in Calls : CapsStarted(p) /\ UNCHANGED <<normVars, chatVars, healthVars, streamVars>>
    \/ \E p \in Calls : CapsCatalog(p) /\ UNCHANGED <<normVars, chatVars, healthVars, streamVars>>
    \/ \E p \in Calls : CapsNext(p) /\ UNCHANGED <<normVars, chatVars, healthVars, streamVars>>
    \/ \E p \in Calls : CapsCacheCheck(p) /\ UNCHANGED <<normVars, chatVars, healthVars, streamVars>>
    \/ \E p \in Calls : CapsResolved(p) /\ UNCHANGED <<normVars, chatVars, healthVars, streamVars>>
    \/ \E p \in Calls : CapsSuper(p) /\ UNCHANGED <<normVars, chatVars, healthVars, streamVars>>

SpecCaps == InitCaps /\ [][NextCaps]_vars

\* ------------------------------------------------------- claims C7, C8
\* C7: every capabilities value built by getModelInfo, and every entry
\* placed in the map of getAllModels, has maxInputTokens + maxOutputTokens
\* equal to the context window.
C7_LimitsAddUpToWindow ==
    /\ \A p \in Calls :
          pcaps[p].set =>
              pcaps[p].maxInputTokens + pcaps[p].maxOutputTokens = pcaps[p].contextWindow
    /\ \A p \in Calls : \A m \in Models :
          known[p][m].set =>
              known[p][m].maxInputTokens + known[p][m].maxOutputTokens
                  = known[p][m].contextWindow

\* C7, the part that holds: the capabilities getModelInfo builds add up
C7_BuiltCapsAddUp ==
    \A p \in Calls :
        pcaps[p].set =>
            pcaps[p].maxInputTokens + pcaps[p].maxOutputTokens = pcaps[p].contextWindow

\* two finished getModelInfo calls of the SDK provider for the same model
SameModelDone(p, q) ==
    /\ p # q /\ prov = "sdk"
    /\ ppc[p] = "done" /\ ppc[q] = "done"
    /\ pcall[p].kind = "info" /\ pcall[q].kind = "info"
    /\ pcall[p].model = pcall[q].model

\* C8: where no call passes overrides and the metadata source answers the
\* same for a model every time, two getModelInfo calls for the same model,
\* in any interleaving, return equal values, and the cache holds that value.
C8_ConcurrentCallsAgree ==
    \A p, q \in Calls :
        (SameModelDone(p, q) /\ \A r \in Calls : ~pcall[r].override) =>
            /\ presult[p] = presult[q]
            /\ modelCache[pcall[p].model] = presult[p]

\* both calls missed the cache, resolved the model and wrote the cache
C8_BothResolved ==
    \E p, q \in Calls :
        /\ SameModelDone(p, q) /\ \A r \in Calls : ~pcall[r].override
        /\ pcall[p].resolved /\ pcall[q].resolved
        /\ presult[p].set


\* =====================================================================
\*  The health prober inside the catalog listing:
\*  foundryLocalProvider.ts, getAllModels and _checkFoundryService
\* =====================================================================
\* a request of the provider: what it is made for, and its URL
Request(why, url) == [why |-> why, url |-> url]

\* the providers that reach the service over HTTP, and those that use the SDK
RestVariants == {"provider", "part_001"}
SdkVariants == {"part_004", "part_003"}

InitHealth ==
    /\ hvariant \in RestVariants \cup SdkVariants
    /\ hbase \in {BaseUrl(u) : u \in (IF hvariant \in RestVariants THEN ConfiguredUrls
                                       ELSE {""})}
    /\ hinit \in (IF hvariant = "part_004" THEN BOOLEAN ELSE {FALSE})
    /\ hpc = "idle" /\ hresp = NoResp /\ mresp = "none"
    /\ hcheck = "pending" /\ hlog = <<>> /\ hresult = "pending"
    /\ hthrown = <<>> /\ herror = <<>>
    /\ hlist = NoList /\ houtcomes = <<>> /\ hknown = {} /\ hwarn = {}
    /\ VersionIdle /\ StreamIdle
    /\ NormIdle /\ ChatIdle /\ CapsIdle

\* the status test as it would be were 'healthy' not accepted
IsOkStatus(st) == st = "ok"

\* healthData.status !== 'ok' && healthData.status !== 'healthy' throws
IsPositiveStatus(st) == st \in {"ok", "healthy"}

\* the try block of _checkFoundryService: the function returns ("passed"),
\* the catch block runs ("fallback"), or neither, and the function goes on
\* to its last throw ("notResponding")
AfterHealth(r) ==
    IF r.outcome = "throws" THEN "fallback"
    ELSE IF r.outcome = "notok" THEN "notResponding"
    ELSE IF r.outcome = "badjson" THEN "fallback"
    ELSE IF IsPositiveStatus(r.status) THEN "passed"
    ELSE "fallback"

\* the catch block as it would be without `if (modelsResponse.ok) return`
AfterFallbackNoReturn(m) == IF m = "throws" THEN "notRunning" ELSE "notResponding"

\* the catch block of _checkFoundryService: the function returns ("passed"),
\* throws 'not running or not accessible' ("notRunning"), or goes on to its
\* last throw ("notResponding")
AfterFallback(m) ==
    IF m = "ok" THEN "passed"
    ELSE IF m = "throws" THEN "notRunning"
    ELSE "notResponding"

\* An error message is held as the sequence of its segments; <<>> is no error.
\* the message of the error thrown in the inner catch block, when the
\* fallback request throws too
NotRunningMessage(base) ==
    << "Foundry Local service", " is not running or not accessible. ",
       "Please start the service with ", "foundry local start", " command. ",
       "Make sure Foundry Local is installed and properly configured. ",
       "Check that the service is running on ", base, "." >>

\* the last throw as it would be were the URL left out of its message
NotRespondingNoUrl(base) ==
    << "Foundry Local service", " is not responding correctly. ",
       "Please check your Foundry Local installation and configuration." >>

\* the message of the last throw of _checkFoundryService
NotRespondingMessage(base) ==
    << "Foundry Local service", " at ", base, " is not responding correctly. ",
       "Please check your Foundry Local installation and configuration." >>

\* the errors of part_004: _ensureInitialized fails ("initFailed"); the
\* catch block of getAllModels, for an error whose message holds 'fetch' or
\* 'ECONNREFUSED' ("unableToConnect") and for any other ("failedToFetch")
Part004Message(kind, errorMessage) ==
    IF kind = "initFailed"
    THEN << "Failed to initialize ", "Foundry Local service", ". ",
            "Please ensure Foundry Local is installed and running. ",
            "You can start it with ", "foundry local start", "." >>
    ELSE IF kind = "unableToConnect"
    THEN << "Unable to connect to ", "Foundry Local service", ". ",
            "Please ensure Foundry Local is installed and running. ",
            "You can start the service with ", "foundry local start", "." >>
    ELSE << "Failed to fetch models from Foundry Local: ", errorMessage, ". ",
            "Please ensure Foundry Local is properly installed and configured." >>

\* the errors of part_003: _checkFoundryService finds the service not
\* running ("sdkNotRunning") or meets another error ("unableToConnect"); the
\* catch block of getAllModels ("failedToFetch")
Part003Message(kind) ==
    IF kind = "sdkNotRunning"
    THEN << "Foundry Local service", " is not running. ",
            "Please start the service with ", "foundry service start", " command. ",
            "Make sure Foundry Local is installed and properly configured." >>
    ELSE IF kind = "unableToConnect"
    THEN << "Unable to connect to ", "Foundry Local service", ". ",
            "Please ensure Foundry Local version ", "1.0.0",
            " or higher is installed and running. ",
            "You can start the service with ", "foundry service start", "." >>
    ELSE << "Failed to fetch models from Foundry Local. ",
            "Please ensure Foundry Local is installed and running. ",
            "You can start the service with ", "foundry service start", "." >>

\* the error the service check of a provider ends with
CheckError(check, base) ==
    IF check = "notRunning" THEN NotRunningMessage(base)
    ELSE IF check = "notResponding" THEN NotRespondingMessage(base)
    ELSE IF check = "initFailed" THEN Part004Message(check, "")
    ELSE IF check \in {"sdkNotRunning", "unableToConnect"} THEN Part003Message(check)
    ELSE <<>>

\* e.message.includes(text), for a text that is a segment
Includes(message, text) == \E i \in 1..Len(message) : message[i] = text

\* the message of the error the catch block of getAllModels makes
FailedToFetchMessage ==
    << "Failed to fetch models from Foundry Local. ",
       "Please ensure Foundry Local is installed and running. ",
       "You can start the service with ", "foundry local start",
       " or check the Foundry Local documentation for setup instructions." >>

\* the catch block of getAllModels: an error whose message names the
\* 'Foundry Local service' is thrown on as it is, any other is replaced
Rethrown(e) == IF Includes(e, "Foundry Local service") THEN e ELSE FailedToFetchMessage

\* what getAllModels throws for an error `e` met after its service check:
\* part_004 tests the message for 'fetch' and 'ECONNREFUSED', part_003
\* keeps an error that names the service and has its own message otherwise
Caught(v, e) ==
    IF v = "part_004"
    THEN IF e[1] \in {"fetch failed", "connect ECONNREFUSED"}
         THEN Part004Message("unableToConnect", "")
         ELSE Part004Message("failedToFetch", e[1])
    ELSE IF v = "part_003"
    THEN IF Includes(e, "Foundry Local service") THEN e ELSE Part003Message("failedToFetch")
    ELSE Rethrown(e)

\* the catch block of getAllModels: an error whose message names the
\* 'Foundry Local service' is thrown on as it is
ServiceError(check) == "error:" \o check

\* getAllModels is called: _checkFoundryService requests GET /health
HealthCall ==
    /\ hpc = "idle" /\ hvariant \in RestVariants
    /\ hpc' = "health"
    /\ hlog' = Append(hlog, Request("health", hbase \o "/health"))
    /\ UNCHANGED <<hbase, hresp, mresp, hcheck, hresult, hthrown, herror,
                   hvariant, hinit, hlist, houtcomes, hknown, hwarn>>

\* the end of the service check as it would be were the catalog asked for
\* whatever the check found
CheckEndsUnheeded(check, log) ==
    /\ hcheck' = check
    /\ hthrown' = CheckError(check, hbase)
    /\ hpc' = "list" /\ hresult' = hresult /\ herror' = herror
    /\ hlog' = Append(log, Request("list", "listCatalogModels"))

\* what follows the end of the service check in getAllModels: the catalog
\* request, or the error. part_004 checks before its try block, so its
\* error does not pass through a catch block.
CheckEnds(check, log) ==
    /\ hcheck' = check
    /\ hthrown' = CheckError(check, hbase)
    /\ IF check = "passed"
       THEN /\ hpc' = "list" /\ hresult' = hresult /\ herror' = herror
            /\ hlog' = Append(log, Request("list",
                          IF hvariant \in RestVariants THEN hbase \o "/v1/models"
                          ELSE "listCatalogModels"))
       ELSE /\ hpc' = "failed" /\ hlog' = log /\ hresult' = ServiceError(check)
            /\ herror' = IF hvariant = "part_004" THEN CheckError(check, hbase)
                          ELSE Caught(hvariant, CheckError(check, hbase))

\* GET /health settles
HealthAnswered ==
    /\ hpc = "health"
    /\ \E r \in HealthResponses :
          /\ hresp' = r
          /\ IF AfterHealth(r) = "fallback"
             THEN /\ hpc' = "fallback"
                  /\ hlog' = Append(hlog, Request("fallback", hbase \o "/v1/models"))
                  /\ UNCHANGED <<hcheck, hresult, hthrown, herror>>
             ELSE CheckEnds(AfterHealth(r), hlog)
    /\ UNCHANGED <<hbase, mresp, hvariant, hinit, hlist, houtcomes, hknown, hwarn>>

\* the fallback GET /v1/models settles
FallbackAnswered ==
    /\ hpc = "fallback"
    /\ \E m \in ModelsResponses :
          /\ mresp' = m
          /\ CheckEnds(AfterFallback(m), hlog)
    /\ UNCHANGED <<hbase, hresp, hvariant, hinit, hlist, houtcomes, hknown, hwarn>>

\* getAllModels of an SDK provider is called: part_004 runs
\* _ensureInitialized, which returns at once where `_initialized` is set;
\* part_003 runs _checkFoundryService; both start the service
SdkCall ==
    /\ hpc = "idle" /\ hvariant \in SdkVariants
    /\ IF hvariant = "part_004" /\ hinit
       THEN CheckEnds("passed", hlog)
       ELSE /\ hpc' = "starting"
            /\ hlog' = Append(hlog, Request("start", "startService"))
            /\ UNCHANGED <<hcheck, hresult, hthrown, herror>>
    /\ UNCHANGED <<hbase, hresp, mresp, hvariant, hinit, hlist, houtcomes, hknown, hwarn>>

\* how the service check of an SDK provider ends: part_004's startService
\* and init(null) succeed or throw; part_003's startService and
\* isServiceRunning answer true, answer false, or throw
AfterStart(v, o) ==
    IF o = "ok" THEN "passed"
    ELSE IF v = "part_004" THEN "initFailed"
    ELSE IF o = "notRunning" THEN "sdkNotRunning"
    ELSE "unableToConnect"

\* the SDK calls of the service check settle
SdkStarted ==
    /\ hpc = "starting"
    /\ \E o \in {"ok", "throws"} \cup (IF hvariant = "part_003" THEN {"notRunning"} ELSE {}) :
          /\ hinit' = (hinit \/ (hvariant = "part_004" /\ o = "ok"))
          /\ CheckEnds(AfterStart(hvariant, o), hlog)
    /\ UNCHANGED <<hbase, hresp, mresp, hvariant, hlist, houtcomes, hknown, hwarn>>

\* ---- the catalog
MaxCatalog == 3

\* a catalog entry: its `id`, and whether the id is a string (an entry
\* without `id` has the id undefined, which as a key reads 'undefined')
Entry(id, isString) == [id |-> id, isString |-> isString]
Entries == {Entry("m1", TRUE), Entry("m2", TRUE), Entry("", TRUE), Entry("undefined", FALSE)}
Catalogs == UNION {[1..n -> Entries] : n \in 0..MaxCatalog}

\* what the catalog request of a provider can be answered with
ListResponses(v) ==
    {ListResp("array", "", c) : c \in Catalogs} \cup
    (IF v \in RestVariants
     THEN {ListResp("throws", "Connection refused", <<>>), ListResp("notok", "", <<>>),
           ListResp("nodata", "", <<>>), ListResp("notarray", "", <<>>)}
     ELSE {ListResp("throws", "fetch failed", <<>>),
           ListResp("throws", "catalog unavailable", <<>>), ListResp("null", "", <<>>)})

\* !model.id || typeof model.id !== 'string', negated
HasStringId(e) == e.isString /\ e.id # ""

\* the test of `data`, as it would be were it made by no provider
ValidatesNothing(v) == FALSE

\* part_001 tests `!modelsResponse.data || !Array.isArray(modelsResponse.data)`
\* before its loop; the other providers have no such test
ValidatesData(v) == v = "part_001"

\* part_001 skips an entry without a string id; the other providers have no such test
Skips(v, e) == v = "part_001" /\ ~HasStringId(e)

\* getAllModels fails with the error `e`
ListFails(e) ==
    /\ hpc' = "failed" /\ hresult' = "error:listing"
    /\ herror' = Caught(hvariant, e)

\* getAllModels returns `knownModels`; part_001 and part_004 warn where it is empty
ListReturns(models, warn) ==
    /\ hpc' = "done" /\ hresult' = "returned" /\ herror' = herror
    /\ hknown' = models
    /\ hwarn' = IF models = {} /\ hvariant = "part_001"
                 THEN warn \cup {"No valid models found from Foundry Local service"}
                 ELSE IF models = {} /\ hvariant = "part_004"
                 THEN warn \cup {"No valid models found from Foundry Local catalog"}
                 ELSE warn

\* the catalog request settles. Without an array to walk, the REST provider
\* of foundryLocalProvider.ts and part_003 meet a TypeError at `for (... of
\* ...)`, part_001 warns and returns {}, part_004 warns and returns {} for
\* null and for the empty array.
ListAnswered ==
    /\ hpc = "list"
    /\ \E r \in ListResponses(hvariant) :
          /\ hlist' = r
          /\ IF r.kind = "throws"
             THEN ListFails(<<r.message>>) /\ UNCHANGED <<hknown, hwarn>>
             ELSE IF r.kind = "notok"
             THEN ListFails(<<"Failed to fetch models: ", "500">>) /\ UNCHANGED <<hknown, hwarn>>
             ELSE IF r.kind \in {"nodata", "notarray"} /\ ValidatesData(hvariant)
             THEN /\ hpc' = "done" /\ hresult' = "returned" /\ herror' = herror
                  /\ hknown' = {}
                  /\ hwarn' = hwarn \cup
                        {"Invalid models response format from Foundry Local service"}
             ELSE IF r.kind \in {"nodata", "notarray", "null"} /\ hvariant # "part_004"
             THEN ListFails(<<"TypeError: ", "is not iterable">>) /\ UNCHANGED <<hknown, hwarn>>
             ELSE IF hvariant = "part_004" /\ r.entries = <<>>
             THEN /\ hpc' = "done" /\ hresult' = "returned" /\ herror' = herror
                  /\ hknown' = {}
                  /\ hwarn' = hwarn \cup {"No models found in Foundry Local catalog"}
             ELSE IF r.entries = <<>>
             THEN ListReturns({}, hwarn)
             ELSE /\ hpc' = "entries"
                  /\ UNCHANGED <<hresult, herror, hknown, hwarn>>
    /\ UNCHANGED <<hbase, hresp, mresp, hcheck, hlog, hthrown, hvariant, hinit, houtcomes>>

\* one pass of `for (const model of ...)`: the entry is skipped, or
\* getModelInfo is called for its id and resolves or rejects. A rejection is
\* caught and logged inside the loop, except in part_003, whose loop has no
\* try block. After the last entry getAllModels returns.
ListEntry ==
    /\ hpc = "entries"
    /\ LET i == Len(houtcomes) + 1
           model == hlist.entries[i]
           last == i = Len(hlist.entries)
       IN  IF Skips(hvariant, model)
           THEN /\ houtcomes' = Append(houtcomes, "skipped")
                /\ hlog' = hlog
                /\ IF last
                   THEN ListReturns(hknown, hwarn \cup {"Skipping model with invalid ID:"})
                   ELSE /\ hwarn' = hwarn \cup {"Skipping model with invalid ID:"}
                        /\ UNCHANGED <<hpc, hresult, herror, hknown>>
           ELSE /\ hlog' = Append(hlog, Request("getModelInfo", model.id))
                /\ \E o \in {"resolved", "rejected"} :
                      /\ houtcomes' = Append(houtcomes, o)
                      /\ IF o = "resolved"
                         THEN IF last
                              THEN ListReturns(hknown \cup {model.id}, hwarn)
                              ELSE /\ hknown' = hknown \cup {model.id}
                                   /\ UNCHANGED <<hpc, hresult, herror, hwarn>>
                         ELSE IF hvariant = "part_003"
                         THEN ListFails(<<"Model not found">>) /\ UNCHANGED <<hknown, hwarn>>
                         ELSE IF last
                         THEN ListReturns(hknown, hwarn \cup {"Failed to get info for model"})
                         ELSE /\ hwarn' = hwarn \cup {"Failed to get info for model"}
                              /\ UNCHANGED <<hpc, hresult, herror, hknown>>
    /\ UNCHANGED <<hbase, hresp, mresp, hcheck, hthrown, hvariant, hinit, hlist>>

NextHealth ==
    \/ (HealthCall /\ UNCHANGED <<normVars, chatVars, capsVars, versionVars, streamVars>>)
    \/ (HealthAnswered /\ UNCHANGED <<normVars, chatVars, capsVars, versionVars, streamVars>>)
    \/ (FallbackAnswered /\ UNCHANGED <<normVars, chatVars, capsVars, versionVars, streamVars>>)
    \/ (SdkCall /\ UNCHANGED <<normVars, chatVars, capsVars, versionVars, streamVars>>)
    \/ (SdkStarted /\ UNCHANGED <<normVars, chatVars, capsVars, versionVars, streamVars>>)
    \/ (ListAnswered /\ UNCHANGED <<normVars, chatVars, capsVars, versionVars, streamVars>>)
    \/ (ListEntry /\ UNCHANGED <<normVars, chatVars, capsVars, versionVars, streamVars>>)

SpecHealth == InitHealth /\ [][NextHealth]_vars

\* ------------------------------------------------------ claims C9, C10
\* C9: if GET /health answers successfully with the status 'ok' or
\* 'healthy', _checkFoundryService succeeds and the fallback request (the
\* listing of the models) is never issued.
C9_PositiveHealthSkipsFallback ==
    (hresp.outcome = "json" /\ hresp.status \in {"ok", "healthy"}) =>
        /\ hcheck = "passed"
        /\ \A i \in 1..Len(hlog) : hlog[i].why # "fallback"

\* the health probe has answered 'healthy' and the listing has gone on to its end
C9_HealthyAnswered ==
    /\ hresp.outcome = "json" /\ hresp.status = "healthy"
    /\ hpc = "done"

\* C10: if GET /health throws and the fallback request then answers
\* successfully, _checkFoundryService succeeds.
C10_FallbackRescuesThrow ==
    (hresp.outcome = "throws" /\ mresp = "ok") => hcheck = "passed"

\* the health probe threw, the fallback answered and the catalog was asked for
C10_RescuedByFallback ==
    /\ hresp.outcome = "throws" /\ mresp = "ok"
    /\ Len(hlog) = 3 /\ hlog[2].why = "fallback" /\ hlog[3].why = "list"

\* =====================================================================
\*  The version comparison: foundryLocalProvider.ts, _isVersionSupported
\* =====================================================================
\* A version string is held as the sequence of the texts between its dots,
\* which is what split('.') makes of it.
MaxParts == 3
PartTexts == {"0", "1", "2", "9", "10", "x"}
Versions == UNION {[1..n -> PartTexts] : n \in 1..MaxParts}

\* const MINIMUM_FOUNDRY_VERSION = '1.0.0'
MINIMUM_FOUNDRY_VERSION == <<"1", "0", "0">>

\* parseInt(n, 10) is NaN for a text that does not start with a digit
NaN == -1
ParseInt(n) ==
    CASE n = "0" -> 0 [] n = "1" -> 1 [] n = "2" -> 2 [] n = "9" -> 9
      [] n = "10" -> 10 [] OTHER -> NaN

\* version.split('.').map(n => parseInt(n, 10))
Parts(version) == [i \in 1..Len(version) |-> ParseInt(version[i])]

\* the part as it would be were a missing part not taken as 0
PartOrBelow(parts, i) == IF i > Len(parts) THEN NaN ELSE parts[i]

\* parts[i] || 0: a missing part is undefined, and undefined, NaN and 0 are falsy
PartOr0(parts, i) ==
    IF i > Len(parts) \/ parts[i] = NaN \/ parts[i] = 0 THEN 0 ELSE parts[i]

\* Math.max
Max(a, b) == IF a > b THEN a ELSE b

InitVersion ==
    /\ currentVersion \in Versions
    /\ vi = 1 /\ vsupported = "pending"
    /\ ProbeIdle /\ StreamIdle
    /\ NormIdle /\ ChatIdle /\ CapsIdle

\* one pass of the loop body: the two parts at `i` are compared
VersionCompare ==
    /\ vsupported = "pending"
    /\ vi <= Max(Len(currentVersion), Len(MINIMUM_FOUNDRY_VERSION))
    /\ LET current == PartOr0(Parts(currentVersion), vi)
           minimum == PartOr0(Parts(MINIMUM_FOUNDRY_VERSION), vi)
       IN  IF current > minimum THEN vsupported' = "true" /\ vi' = vi
           ELSE IF current < minimum THEN vsupported' = "false" /\ vi' = vi
           ELSE vsupported' = vsupported /\ vi' = vi + 1
    /\ UNCHANGED currentVersion

\* the loop has ended: return true, the versions are equal
VersionEqual ==
    /\ vsupported = "pending"
    /\ vi > Max(Len(currentVersion), Len(MINIMUM_FOUNDRY_VERSION))
    /\ vsupported' = "true"
    /\ UNCHANGED <<currentVersion, vi>>

NextVersion ==
    \/ (VersionCompare /\ UNCHANGED <<normVars, chatVars, capsVars, probeVars, streamVars>>)
    \/ (VersionEqual /\ UNCHANGED <<normVars, chatVars, capsVars, probeVars, streamVars>>)

SpecVersion == InitVersion /\ [][NextVersion]_vars

\* ------------------------------------------------------------ claim C12
\* the part of a version at a place, as a number: 0 where the version has
\* no part there
NumberAt(version, i) == IF i > Len(version) THEN 0 ELSE ParseInt(version[i])

\* every part of the version is a number
IsNumeric(version) == \A i \in 1..Len(version) : ParseInt(version[i]) # NaN

\* the places where the version differs from the minimum version
Differing(version) ==
    {i \in 1..Max(Len(version), Len(MINIMUM_FOUNDRY_VERSION)) :
        NumberAt(version, i) # NumberAt(MINIMUM_FOUNDRY_VERSION, i)}

\* the first differing part is the greater one, or no part differs
AtLeastMinimum(version) ==
    \/ Differing(version) = {}
    \/ \E i \in Differing(version) :
          /\ \A j \in Differing(version) : i <= j
          /\ NumberAt(version, i) > NumberAt(MINIMUM_FOUNDRY_VERSION, i)

\* C12: for a version whose dot-separated parts are numbers,
\* _isVersionSupported compares the parts with those of 1.0.0 as numbers
\* from the left, a missing part being 0; the first part that differs
\* decides and equal versions are supported. So 1.2.0 and 1.0 are
\* supported and 0.9.9 is not.
C12_ComparesPartsNumerically ==
    (vsupported # "pending" /\ IsNumeric(currentVersion)) =>
        /\ (vsupported = "true") <=> AtLeastMinimum(currentVersion)
        /\ currentVersion = <<"1", "2", "0">> => vsupported = "true"
        /\ currentVersion = <<"1", "0">> => vsupported = "true"
        /\ currentVersion = <<"0", "9", "9">> => vsupported = "false"

\* 1.0, which has no third part, has been compared to its end
C12_MissingPartCompared ==
    currentVersion = <<"1", "0">> /\ vsupported = "true" /\ vi = 4

\* ------------------------------------------------------------ claim C11
\* C11: if neither probe succeeds (GET /health throws or answers with a
\* non-success response, and the fallback request, where it is made, does so
\* too), _checkFoundryService fails, and the message of its error, which
\* getAllModels throws on, contains the base URL of the provider.
C11_FailureNamesBaseUrl ==
    (/\ hresp.outcome \in {"throws", "notok"}
     /\ mresp # "ok"
     /\ hpc \notin {"health", "fallback"}) =>
        /\ hcheck \in {"notRunning", "notResponding"}
        /\ hpc = "failed"
        /\ \E i \in 1..Len(hthrown) : hthrown[i] = hbase
        /\ herror = hthrown

\* the health probe threw and the fallback answered with a non-success
\* status, at a configured base URL
C11_BothProbesFailed ==
    /\ hbase = "http://custom-host:8080"
    /\ hresp.outcome = "throws" /\ mresp = "notok"
    /\ hpc = "failed"

\* ------------------------------------------------------------ claim C13
\* the ids of the catalog entries that have a non-empty string id and whose
\* getModelInfo call resolved
ResolvedStringIds ==
    {hlist.entries[i].id : i \in {j \in 1..Len(houtcomes) :
        /\ hlist.entries[j].isString /\ hlist.entries[j].id # ""
        /\ houtcomes[j] = "resolved"}}

\* C13: when getAllModels of a REST provider (foundryLocalProvider.ts,
\* part_001) has walked a catalog array, it returns a map whose keys are
\* exactly the ids of the entries that have a non-empty string id and whose
\* capabilities resolved; an entry without such an id is in no key and
\* does not make the listing fail.
C13_KeysAreResolvedStringIds ==
    (hvariant \in RestVariants /\ hlist.kind = "array" /\ hpc \in {"done", "failed"}) =>
        /\ hpc = "done"
        /\ hknown = ResolvedStringIds

\* the same for part_001 alone, which tests the id of each entry
C13_Part001KeysAreResolvedStringIds ==
    (hvariant = "part_001" /\ hlist.kind = "array" /\ hpc \in {"done", "failed"}) =>
        /\ hpc = "done"
        /\ hknown = ResolvedStringIds

\* part_001 has listed the catalog m1, '', m2 and all that resolved is returned
C13_Part001SkippedEmptyId ==
    /\ hvariant = "part_001" /\ hpc = "done"
    /\ hlist.entries = <<Entry("m1", TRUE), Entry("", TRUE), Entry("m2", TRUE)>>
    /\ houtcomes = <<"resolved", "skipped", "resolved">>
    /\ hknown = {"m1", "m2"}

\* ------------------------------------------------------------ claim C14
\* the listing has ended with a map that holds every entry that resolved
ReturnedAllResolved ==
    /\ hpc = "done" /\ hresult = "returned"
    /\ \A j \in 1..Len(hlist.entries) :
          (j <= Len(houtcomes) /\ houtcomes[j] = "resolved") => hlist.entries[j].id \in hknown

\* the catalog request was answered with an array of entries that all have
\* a non-empty string id
WellFormedCatalog ==
    /\ hlist.kind = "array"
    /\ \A j \in 1..Len(hlist.entries) :
          hlist.entries[j].isString /\ hlist.entries[j].id # ""

\* C14: once the service check has passed and the catalog request has been
\* answered with a well-formed array, getAllModels succeeds: an entry whose
\* getModelInfo call rejects does not end the listing, every entry that
\* resolved is in the map returned, and an empty catalog or an empty result
\* gives the empty map, not an error.
C14_ListingOfArraySucceeds ==
    (hcheck = "passed" /\ WellFormedCatalog /\ hpc \in {"done", "failed"}) =>
        ReturnedAllResolved

\* the same for the providers whose loop catches the error of an entry
C14_CatchingProvidersSucceed ==
    (/\ hvariant # "part_003"
     /\ hcheck = "passed" /\ hlist.kind = "array" /\ hpc \in {"done", "failed"}) =>
        ReturnedAllResolved

\* part_004 has gone past an entry that rejected and returned the one after it
C14_Part004WentOn ==
    /\ hvariant = "part_004" /\ hpc = "done"
    /\ houtcomes = <<"rejected", "resolved">> /\ hknown = {"m2"}

\* ------------------------------------------------------------ claim C15
\* C15: when the catalog request of a REST provider (foundryLocalProvider.ts,
\* part_001) is answered with a listing that is not an array, getAllModels
\* fails with an error and returns no map.
C15_InvalidListingFails ==
    (hvariant \in RestVariants /\ hlist.kind \in {"nodata", "notarray"}) =>
        /\ hpc = "failed" /\ hresult # "returned"
        /\ herror # <<>>

\* the same for foundryLocalProvider.ts alone, which walks `data` untested
C15_ProviderFailsOnInvalidListing ==
    (hvariant = "provider" /\ hlist.kind \in {"nodata", "notarray"}) =>
        /\ hpc = "failed" /\ hresult # "returned"
        /\ herror = FailedToFetchMessage

\* ------------------------------------------------------------ claim C16
\* C16: when the service check of part_001 has passed and the models
\* response has no `data` array, getAllModels returns the empty map and has
\* logged the warning 'Invalid models response format from Foundry Local
\* service'.
C16_NoDataGivesEmptyMapAndWarning ==
    (/\ hvariant = "part_001" /\ hcheck = "passed"
     /\ hlist.kind \in {"nodata", "notarray"}) =>
        /\ hpc = "done" /\ hresult = "returned" /\ herror = <<>>
        /\ hknown = {}
        /\ "Invalid models response format from Foundry Local service" \in hwarn

\* GET /health answered 'ok' and the models response of part_001 had no `data`
C16_HealthyThenNoData ==
    /\ hvariant = "part_001"
    /\ hresp.outcome = "json" /\ hresp.status = "ok"
    /\ hlist.kind = "nodata" /\ hpc = "done"

\* ------------------------------------------------------------ claim C17
\* a getModelInfo call without overrides that has asked the metadata source
\* about its model
Looked(p) == pcall[p].kind = "info" /\ ~pcall[p].override /\ pcall[p].resolved

\* C17: a getModelInfo call of the SDK provider (part_004) without overrides,
\* for a model the SDK knows nothing of (its getModelInfo returns null),
\* fails: it returns no capabilities and leaves the cache without an entry
\* for the model.
C17_UnknownModelFails ==
    \A p \in Calls :
        (prov = "sdk" /\ Looked(p) /\ src[pcall[p].model].answer = "missing") =>
            /\ ppc[p] # "done" /\ ~presult[p].set
            /\ ~modelCache[pcall[p].model].set

\* ------------------------------------------------------------ claim C18
\* C18: a getModelInfo call of the REST provider without overrides whose
\* metadata request throws, or is answered with a non-success status by
\* every endpoint, does not fail: it goes on with the default capabilities,
\* a context window of 4096 and 2048 output tokens.
C18_FetchFailureGivesDefaults ==
    \A p \in Calls :
        (prov = "rest" /\ Looked(p) /\ src[pcall[p].model].answer \in {"throws", "missing"}) =>
            /\ ppc[p] \in {"super", "done"}
            /\ pcaps[p].set
            /\ pcaps[p].contextWindow = Tok(4096)
            /\ pcaps[p].maxOutputTokens = Tok(2048)
            /\ pcaps[p].maxInputTokens = Tok(2048)
            /\ ~pcaps[p].toolCalling
            /\ ppc[p] = "done" => presult[p].set

\* the metadata request for a model threw and the call has returned
C18_ReturnedAfterThrow ==
    \E p \in Calls :
        /\ prov = "rest" /\ Looked(p) /\ src[pcall[p].model].answer = "throws"
        /\ ppc[p] = "done" /\ presult[p].set

\* ------------------------------------------------------------ claim C20
\* a getModelInfo call without overrides for the model has returned
Succeeded(p, m) ==
    /\ pcall[p].kind = "info" /\ ~pcall[p].override /\ pcall[p].model = m
    /\ ppc[p] = "done" /\ presult[p].set

\* C20: once a getModelInfo call of the SDK provider without overrides has
\* returned for a model, a call without overrides for that model that
\* comes to its cache test returns the cached entry and asks the metadata
\* source nothing.
C20_LaterCallsServedFromCache ==
    [][\A q \in Calls :
          (/\ prov = "sdk"
           /\ pcall[q].kind = "info" /\ ~pcall[q].override
           /\ ppc[q] = "cache" /\ ppc'[q] # "cache"
           /\ \E p \in Calls \ {q} : Succeeded(p, pcall[q].model)) =>
              /\ ppc'[q] = "done"
              /\ presult'[q] = modelCache[pcall[q].model]
              /\ presult'[q].set
              /\ ~pcall'[q].resolved]_vars

\* a call came after another had returned for the model, and was served
\* from the cache
C20_SecondCallServed ==
    \E p, q \in Calls :
        /\ p # q /\ prov = "sdk"
        /\ Succeeded(p, pcall[q].model) /\ pcall[p].resolved
        /\ Succeeded(q, pcall[p].model) /\ ~pcall[q].resolved

\* ------------------------------------------------------------ claim C19
\* the catalog has been asked for, or getModelInfo called for an entry
CatalogTouched ==
    \E i \in 1..Len(hlog) : hlog[i].why \in {"list", "getModelInfo"}

OverrideDone(p) == pcall[p].kind = "info" /\ pcall[p].override /\ ppc[p] = "done"

\* C21: a getModelInfo call that is given overrides returns the value built
\* from the overrides, also where the cache held an entry for the model
\* when it was called, and the cache then holds that value.
C21_OverridesBypassCacheRead ==
    \A p \in Calls :
        OverrideDone(p) =>
            /\ presult[p] = SuperGetModelInfo(OverrideCaps, limitsSet)
            /\ modelCache[pcall[p].model] = presult[p]

\* C21, the first half, for the SDK provider, which stores what it returns
C21_SdkOverridesUsed ==
    \A p \in Calls :
        (prov = "sdk" /\ OverrideDone(p)) =>
            presult[p] = SuperGetModelInfo(OverrideCaps, limitsSet)

\* ------------------------------------------------------------ claim C22
\* the configured service URL with its trailing slash stripped
Stripped(foundryServiceUrl) ==
    IF foundryServiceUrl = "http://custom-host:8080/" THEN "http://custom-host:8080"
    ELSE foundryServiceUrl

\* the provider was constructed with an explicit service URL
ExplicitUrl(base) == base \in {BaseUrl(u) : u \in ConfiguredUrls \ {""}}

\* C22: with an explicit service URL configured, the chat completion request
\* is sent to that URL with its trailing slash stripped, whatever endpoint
\* auto-discovery reports.
C22_ChatGoesToConfiguredUrl ==
    (ExplicitUrl(serviceUrl) /\ chatUrl # "") =>
        chatUrl \in {Stripped(serviceUrl) \o "/chat/completions",
                     Stripped(serviceUrl) \o "/v1/chat/completions"}

\* C22, for the health probe and the catalog fetch of the REST providers
C22_ProbesGoToConfiguredUrl ==
    (hvariant \in RestVariants /\ ExplicitUrl(hbase)) =>
        \A i \in 1..Len(hlog) :
            hlog[i].url \in {Stripped(hbase) \o "/health", Stripped(hbase) \o "/v1/models"}

\* C22, without the slash: with no discovered endpoint and a configured URL
\* that ends in no slash, the chat request goes to the configured URL
C22_NoDiscoveryNoSlash ==
    (cvariant = "part_003" /\ serviceUrl = "http://custom-host:8080" /\ chatUrl # ""
        /\ chatUrl # "http://127.0.0.1:5272/v1/chat/completions") =>
        chatUrl = "http://custom-host:8080/chat/completions"

\* ------------------------------------------------------------ claim C23
\* C23: the message of every error getAllModels of a REST provider throws
\* names the base URL and the command that starts the service.
C23_ErrorsNameUrlAndCommand ==
    (hvariant \in RestVariants /\ herror # <<>>) =>
        /\ Includes(herror, hbase)
        /\ Includes(herror, "foundry local start")

\* C23, for the one error that has both: the two probes have thrown
C23_NotRunningNamesBoth ==
    (hvariant \in RestVariants /\ hcheck = "notRunning") =>
        /\ Includes(herror, hbase)
        /\ Includes(herror, "foundry local start")

\* ------------------------------------------------------------ claim C25
\* C25: once _checkFoundryService has ended after GET /health answered with
\* a non-success status, the fallback GET /v1/models has been issued, and
\* the check has passed where that request answered with success.
C25_NonOkHealthFallsBack ==
    (hvariant \in RestVariants /\ hresp.outcome = "notok" /\ hcheck # "pending") =>
        /\ \E i \in 1..Len(hlog) : hlog[i].why = "fallback"
        /\ (mresp = "ok" => hcheck = "passed")

\* C25, for a health probe that throws: the fallback is issued and decides
C25_ThrowingHealthFallsBack ==
    (hvariant \in RestVariants /\ hresp.outcome = "throws" /\ hcheck # "pending") =>
        /\ \E i \in 1..Len(hlog) : hlog[i].why = "fallback"
        /\ (mresp = "ok" => hcheck = "passed")

\* ------------------------------------------------------------ claim C26
\* the step in which the getModelInfo call p returns a value to its caller
Returns(p) ==
    /\ pcall[p].kind = "info" /\ ppc[p] # "done"
    /\ ppc'[p] = "done" /\ presult'[p].set

\* C26: when a getModelInfo call returns, with or without overrides, the
\* cache holds an entry for its model that equals the value returned.
C26_ReturnedValueIsCached ==
    [][\A p \in Calls :
          Returns(p) => modelCache'[pcall[p].model] = presult'[p]]_vars

\* C26, for the SDK provider of part_004, which sets the cache before it returns
C26_SdkReturnedValueIsCached ==
    [][\A p \in Calls :
          (prov = "sdk" /\ Returns(p)) => modelCache'[pcall[p].model] = presult'[p]]_vars

C27_OnlyCallsInFlightReplace ==
    [][\A m \in Models :
          modelCache[m].set =>
              /\ modelCache'[m].set
              /\ (modelCache'[m] # modelCache[m] =>
                     \E p \in Calls : /\ prov = "sdk" /\ ppc[p] = "super"
                                       /\ pcall[p].model = m /\ ppc'[p] # "super")]_vars

\* C27, for the REST provider, whose cache only the listing fills
C27_RestEntriesNeverReplaced ==
    [][\A m \in Models :
          (prov = "rest" /\ modelCache[m].set) => modelCache'[m] = modelCache[m]]_vars

\* ------------------------------------------------------------ claim C24
\* what progress.report is called with for the lines of one chunk, in order
RECURSIVE ReportsOf(_)
ReportsOf(lines) ==
    IF lines = <<>> THEN <<>>
    ELSE LineReports(Head(lines)) \o ReportsOf(Tail(lines))

\* C24: the text parts reported to the caller of a chat request that ran
\* to its end are those the whole response gives when it arrives as one
\* chunk, however it was split into chunks.
C24_ReportsIndependentOfChunking ==
    (cpc = "done" /\ ~cancelled) => reports = ReportsOf(ChunkLines(input))

\* C24, for transformedFinishedCb: the output for a stream is that for the
\* whole stream given as one chunk
C24_CbIndependentOfChunking ==
    (variant = "cb" /\ nstate = "ended") => out = TransformedFinishedCb(input)

\* C24, for transformFoundryLocalStream, which keeps the incomplete line
C24_OaiIndependentOfChunking ==
    (variant = "oai" /\ nstate = "ended") => out = RunOai(input)

\* ------------------------------------------------------------ claim C28
\* C28: between two chunks, every complete line that has arrived has been
\* emitted in its normalized form (_readAndTransformStream,
\* transformFoundryLocalStream).
C28_CompleteLinesEmittedAtOnce ==
    variant \in {"sse", "oai"} => Len(OutLines) >= Len(InLines)

\* C28, for transformFoundryLocalStream, with the lines themselves
C28_OaiEmitsEachLineAtOnce ==
    variant = "oai" =>
        /\ Len(OutLines) >= Len(InLines)
        /\ SubSeq(OutLines, 1, Len(InLines)) = Map(FoundryLocalStreamLine, InLines)

\* ------------------------------------------------------------ claim C29
\* the stream has ended with a non-blank remainder in the buffer
EndedWithRemainder == nstate = "ended" /\ Trim(Remainder) # <<>>

\* C29: a non-blank remainder left when the stream ends is emitted once, as
\* the last line, in the form the line rule gives it
\* (transformFoundryLocalStream, _transformStream).
C29_RemainderFlushedByLineRule ==
    (variant \in {"oai", "ts"} /\ EndedWithRemainder) =>
        /\ Len(OutLines) = Len(InLines) + 1
        /\ OutLines[Len(OutLines)] = LineRule(Remainder)
        /\ Last(Split(out)) = <<>>

\* C29, for _transformStream, whose flush calls _transformLine
C29_TsRemainderFlushedByLineRule ==
    (variant = "ts" /\ EndedWithRemainder) =>
        /\ Len(OutLines) = Len(InLines) + 1
        /\ OutLines[Len(OutLines)] = TransformLine(Remainder)

\* C29, its last part: once the stream has ended nothing more is emitted
C29_NothingAfterEnd ==
    [][nstate = "ended" => (out' = out /\ nstate' = "ended")]_vars

RaisesOai(line) ==
    /\ StartsWithData(line) /\ Trim(Substring6(line)) # <<DONE>>
    /\ ~(ParseOk(Trim(Substring6(line))) /\ ~ThrowsTypeError(Parse(Trim(Substring6(line)))))
RaisesTs(line) ==
    /\ StartsWithData(Trim(line)) /\ Trim(line) # DoneLine
    /\ Substring6(Trim(line)) \notin {<<>>, <<DONE>>}
    /\ ~(ParseOk(Substring6(Trim(line)))
           /\ ~ThrowsTypeError(Parse(Substring6(Trim(line)))))
Raises(line) == IF variant = "ts" THEN RaisesTs(line) ELSE RaisesOai(line)

\* C31: a complete line whose normalization throws is emitted once, as it
\* arrived, in its place; the lines before and after it are each emitted
\* once, in order, under the line rule (_transformStream,
\* transformFoundryLocalStream).
C31_FailingLinePassedThrough ==
    variant \in {"ts", "oai"} =>
        /\ Len(OutLines) >= Len(InLines)
        /\ \A i \in 1..Len(InLines) :
              OutLines[i] = IF Raises(InLines[i]) THEN InLines[i] ELSE LineRule(InLines[i])

\* C31, for transformFoundryLocalStream, whose catch pushes `line`
C31_OaiFailingLinePassedThrough ==
    variant = "oai" =>
        /\ Len(OutLines) >= Len(InLines)
        /\ \A i \in 1..Len(InLines) :
              OutLines[i] = IF RaisesOai(InLines[i]) THEN InLines[i]
                            ELSE FoundryLocalStreamLine(InLines[i])

\* C31, for _transformStream, up to the white space at the ends of the line
C31_TsFailingLinePassedTrimmed ==
    variant = "ts" =>
        /\ Len(OutLines) >= Len(InLines)
        /\ \A i \in 1..Len(InLines) :
              OutLines[i] = IF RaisesTs(InLines[i]) THEN Trim(InLines[i])
                            ELSE TransformLine(InLines[i])

\* a line that throws has arrived first and a second line after it
C31_LineAfterFailure ==
    /\ variant = "oai" /\ Len(InLines) = 2 /\ Len(OutLines) = 2
    /\ RaisesOai(InLines[1]) /\ ~RaisesOai(InLines[2])
    /\ IsChoicesEvent(InLines[2])

\* ------------------------------------------------------------ claim C32
\* the chat completion request has been issued
Issued == \E i \in 1..Len(chatLog) : chatLog[i] = "fetch"

\* the service check of the call has succeeded: listCatalogModels was
\* called and the call went on to getModelInfo
CheckSucceeded ==
    \E i \in 1..(Len(chatLog) - 1) :
        chatLog[i] = "listCatalogModels" /\ chatLog[i + 1] = "getModelInfo"

\* the service check of the call has failed
CheckFailed ==
    cpc = "failed" /\ Len(chatLog) >= 1 /\ chatLog[Len(chatLog)] = "listCatalogModels"

\* C32: the chat completion request of a call is issued only after the
\* service check of that call has succeeded; where the check has failed no
\* request is issued and nothing is reported.
C32_RequestOnlyAfterCheck ==
    /\ Issued => CheckSucceeded
    /\ CheckFailed => (~Issued /\ reports = <<>>)

\* C32, for part_003, which checks the service in every call
C32_Part003RequestOnlyAfterCheck ==
    cvariant = "part_003" =>
        /\ Issued => CheckSucceeded
        /\ CheckFailed => (~Issued /\ reports = <<>>)

\* C32, for part_004: a call that has failed has issued no request and
\* reported nothing
C32_Part004NoRequestAfterFailure ==
    (cvariant = "part_004" /\ cpc = "failed") => (~Issued /\ reports = <<>>)

\* ------------------------------------------------------------ claim C33
\* C33: the call is not ended by the outcome of init(model): the step in
\* which init settles never leaves the call failed.
C33_FailedInitDoesNotAbort ==
    [][cpc = "modelInit" => cpc' # "failed"]_vars

\* C33, for part_003: when init settles, either way, the request is issued
\* (unless the token has fired before)
C33_Part003RequestAfterInit ==
    [][(cvariant = "part_003" /\ cpc = "modelInit" /\ cpc' # "modelInit") =>
          /\ cpc' = "fetch"
          /\ (~cancelled => Issued')]_vars

\* ------------------------------------------------------------ claim C34
\* C34: in every capabilities value getModelInfo builds, maxOutputTokens is
\* at most the context window and maxInputTokens is not negative.
C34_OutputWithinWindow ==
    \A p \in Calls :
        pcaps[p].set =>
            /\ pcaps[p].maxOutputTokens <= pcaps[p].contextWindow
            /\ pcaps[p].maxInputTokens >= 0

\* C34, for the SDK provider, which takes no number from the source
C34_SdkOutputWithinWindow ==
    \A p \in Calls :
        (prov = "sdk" /\ pcaps[p].set) =>
            /\ pcaps[p].maxOutputTokens <= pcaps[p].contextWindow
            /\ pcaps[p].maxInputTokens >= 0

\* ------------------------------------------------------------ claim C35
\* the call p has built its capabilities from the source's answer for its model
Built(p) == pcall[p].resolved /\ pcaps[p].set

\* the source gives a context window and no max output tokens for p's model
WindowOnly(p) ==
    /\ src[pcall[p].model].answer = "ok"
    /\ src[pcall[p].model].context_length > 0
    /\ src[pcall[p].model].max_tokens = 0

\* C35: where the source gives a context window and no max output tokens,
\* maxOutputTokens is the whole number min(floor(contextWindow / 2), 2048)
\* (foundryLocalProvider.ts getModelInfo).
C35_HalfWindowRoundedDown ==
    \A p \in Calls :
        (prov = "rest" /\ Built(p) /\ WindowOnly(p)) =>
            pcaps[p].maxOutputTokens
                = Tok(Min(src[pcall[p].model].context_length \div 2, 2048))

\* C35, without the rounding: the value is min(contextWindow / 2, 2048)
C35_HalfWindowUnrounded ==
    \A p \in Calls :
        (prov = "rest" /\ Built(p) /\ WindowOnly(p)) =>
            pcaps[p].maxOutputTokens
                = Min(Tok(src[pcall[p].model].context_length) \div 2, Tok(2048))

\* ------------------------------------------------------------ claim C36
\* C36: where the metadata source has answered nothing for the model (the
\* fetch failed or fell back to defaults), the capabilities built report
\* tool calling as supported.
C36_NoSignalMeansToolCalling ==
    \A p \in Calls :
        (Built(p) /\ src[pcall[p].model].answer # "ok") => pcaps[p].toolCalling

\* C36, for the SDK provider, whose hasToolCalling is the constant true
C36_SdkToolCalling ==
    \A p \in Calls : (prov = "sdk" /\ Built(p)) => pcaps[p].toolCalling

\* ------------------------------------------------------------ claim C38
\* C38: once the start step (startService, init(null)) has succeeded, no
\* run of it is under way or begins, whatever calls came before.
C38_StartsOnceAfterSuccess ==
    pinit => \A p \in Calls : ppc[p] # "starting"

\* C38, for the calls that begin after the success: none runs the start step
C38_NoStartBegunAfterSuccess ==
    [][\A p \in Calls :
          (pinit /\ ppc[p] # "starting") => ppc'[p] # "starting"]_vars

\* C38, its last part: a failed start step leaves `_initialized` as it was,
\* and a call on an uninitialized SDK provider runs the start step
C38_FailureLeavesUninitialized ==
    [][\A p \in Calls :
          /\ (ppc[p] = "starting" /\ ppc'[p] = "failed") => pinit' = pinit
          /\ (prov = "sdk" /\ ~pinit /\ ppc[p] = "idle" /\ ppc'[p] # "idle") =>
                 ppc'[p] = "starting"]_vars

\* ------------------------------------------------------------ claim C37
\* the normalizer run on a whole text by itself, as one chunk
RunAlone(text) ==
    WithNewlines(Map(PairLine, AllButLast(Split(text))))
        \o PairEndPush(Last(Split(text)))

\* C37: when requests are normalized at the same time, in any
\* interleaving of their chunks, the output of each request that has
\* ended is the output it has when run alone, and while it runs its
\* buffer holds the incomplete line of its own input and nothing else
\* (transformFoundryLocalStream, _transformStream).
C37_RequestsDoNotShareBuffer ==
    \A r \in Requests :
        /\ qstate[r] = "ended" => qout[r] = RunAlone(qin[r])
        /\ qstate[r] = "streaming" =>
               qbuf[r] = Last(Split(SubSeq(qin[r], 1, qpos[r])))

\* two different requests ran to their ends with different outputs, and
\* a chunk of one arrived while the other held an incomplete line
C37_Witness ==
    /\ qmixed /\ qin[1] # qin[2] /\ qout[1] # qout[2]
    /\ \A r \in Requests : qstate[r] = "ended" /\ qout[r] # <<>>

\* ------------------------------------------------------------ claim C39
\* C39: once the replay stream has gone through its chunks and the
\* consumer has attached its data and end listeners, at whatever moment,
\* the data listener has been given every line of the text once and in
\* order, and the end listener has been called
\* (_createReadableStreamFromText).
C39_EveryLineDeliveredBeforeEnd ==
    (ypc = "done" /\ ydata /\ yend) => (ygot = Chunks(ytext) /\ yended)

\* C39, what holds whenever the listeners attach: the data listener is
\* given a run of the chunks that ends with the chunk emitted last, each
\* once and in order, none after the end was signalled
C39_DeliveredIsSuffixOfEmitted ==
    \E a \in 1..(yindex + 1) : ygot = SubSeq(Chunks(ytext), a, yindex)

\* C39: the end listener is called only after the loop has gone through
\* every chunk
C39_EndOnlyAfterLastChunk ==
    yended => (ypc = "done" /\ yindex = Len(Chunks(ytext)))

\* C39: from the moment its listeners are attached the consumer loses
\* nothing: every chunk emitted is given to the data listener, and the
\* end listener is called when the loop ends
C39_NothingLostOnceAttached ==
    [][/\ (ydata /\ yindex' = yindex + 1) =>
              ygot' = Append(ygot, Chunks(ytext)[yindex + 1])
       /\ (yend /\ ypc = "emitting" /\ ypc' = "done") => yended']_vars

====
